---------------------------- MODULE Spec2Model ----------------------------
(***************************************************************************)
(* A state-machine model of the football predictor backend:               *)
(*   - the statistics functions and the weighted match predictor,         *)
(*   - the match/tournament validator,                                    *)
(*   - the line scanner and the score grammar of the text parser,         *)
(*   - the tournament converter and its batch driver,                     *)
(*   - the team-name normalizer,                                          *)
(*   - the API process (startup of main.py and the endpoints).            *)
(* Every component has its own specification (SpecPredict, SpecValidate,  *)
(* SpecParse, SpecScore, SpecConvert, SpecPipeline, SpecMerge,            *)
(* SpecResolve, SpecStats, SpecServer, SpecBatch, SpecCode, SpecResult);  *)
(* the variables of the other components stay at their idle value.        *)
(*                                                                         *)
(* Python exceptions are modelled as values: an operator that models a    *)
(* function that can raise returns a record whose field "raised" tells    *)
(* whether the call raised.                                               *)
(***************************************************************************)
EXTENDS Integers, Sequences, FiniteSets, TLC

VARIABLES
    \* --- statistics / predictor (main.py, predict.py)
    matches,          \* MATCHES_DATA: the flat list of ApiMatch built at startup
    yearsLoaded,      \* how many entries of YEARS the startup loop has processed
    pred,             \* outcome of the last predict_match call
    main_pc,          \* where the module body of main.py stands: "loading" (lines
                      \* 28-45), "serving" (line 52 has run) or "failed" (lines 54-57)
    response,         \* the answer of the last endpoint call
    \* --- validator (match_validator.py)
    vin,              \* the record or document handed to the validator
    vres,             \* what the validator call produced
    \* --- text parser, line scanner (text_parser.py parse_cup_file)
    pmatches,         \* tournament.matches
    current_group,
    current_round,
    last_match,       \* index into pmatches of the object last_match refers to, 0 = None
    prevMatchLineOk,  \* history: did the most recent "(" line produce a match
    pfile,            \* the file being scanned: "cup.txt" or "cup_finals.txt"
    \* --- text parser, score grammar (parse_score_details)
    scoreIn,
    scoreOut,
    \* --- converter (worldcup_converter.py)
    convIn,
    convOut,
    \* --- a call of the team resolver, of ValidationResult.merge or of a
    \*     statistics function (team_normalizer.py, match_validator.py, analytics/)
    call,             \* the function called and its arguments
    returned          \* what the call produced

vars == << matches, yearsLoaded, pred, main_pc, response, vin, vres, pmatches, current_group,
           current_round, last_match, prevMatchLineOk, pfile,
           scoreIn, scoreOut, convIn, convOut, call, returned >>

predictVars  == << matches, yearsLoaded, pred, main_pc, response >>
validateVars == << vin, vres >>
parseVars    == << pmatches, current_group, current_round, last_match,
                   prevMatchLineOk, pfile >>
scoreVars    == << scoreIn, scoreOut >>
convertVars  == << convIn, convOut >>
callVars     == << call, returned >>

None == "None"
\* The value of a call-result variable before any call.
Idle == [ idle |-> TRUE ]

IdlePredict  == /\ matches = << >> /\ yearsLoaded = 0 /\ pred = Idle
                /\ main_pc = "loading" /\ response = Idle
IdleValidate == vin = Idle /\ vres = Idle
IdleParse    == /\ pmatches = << >> /\ current_group = None /\ current_round = None
                /\ last_match = 0 /\ prevMatchLineOk = FALSE /\ pfile = None
IdleScore    == scoreIn = Idle /\ scoreOut = Idle
IdleConvert  == convIn = Idle /\ convOut = Idle
IdleCall     == call = Idle /\ returned = Idle

(***************************************************************************)
(* Generic helpers                                                         *)
(***************************************************************************)
Abs(x) == IF x < 0 THEN -x ELSE x
Min2(a, b) == IF a < b THEN a ELSE b
Max2(a, b) == IF a > b THEN a ELSE b

RECURSIVE Gcd(_, _)
Gcd(a, b) == IF b = 0 THEN a ELSE Gcd(b, a % b)

\* Python round(n/d, k digits) as an integer count of 10^-k units is
\* RoundHalfEven(n * 10^k, d): nearest integer, ties to the even one.  n >= 0, d > 0.
RoundHalfEven(n, d) ==
    LET q == n \div d
        r == n % d
    IN  IF 2 * r < d THEN q
        ELSE IF 2 * r > d THEN q + 1
        ELSE IF q % 2 = 0 THEN q ELSE q + 1

\* list.sort(key=...) / sorted(..., key=...): stable and ascending.  keys[i] is the
\* key of s[i]; the element that lands at position p is the one with p - 1
\* elements before it in (key, original index) order.
StableSortByKeys(s, keys) ==
    LET n == Len(s)
        Rank(i) == Cardinality({ j \in 1..n :
                       keys[j] < keys[i] \/ (keys[j] = keys[i] /\ j < i) }) + 1
    IN  [ p \in 1..n |-> s[CHOOSE i \in 1..n : Rank(i) = p] ]

Count(s, P(_)) == Cardinality({ i \in DOMAIN s : P(s[i]) })


\* round(n * 10^digits / d) with ties to even, by long division so that no
\* intermediate value exceeds 10 * d.  n >= 0, d > 0.
RECURSIVE LongDiv(_, _, _, _)
LongDiv(q, r, d, digits) ==
    IF digits = 0
    THEN IF 2 * r < d THEN q
         ELSE IF 2 * r > d THEN q + 1
         ELSE IF q % 2 = 0 THEN q ELSE q + 1
    ELSE LongDiv(q * 10 + (10 * r) \div d, (10 * r) % d, d, digits - 1)

RoundScaled(n, d, digits) == LongDiv(n \div d, n % d, d, digits)

RECURSIVE Pow(_, _)
Pow(b, e) == IF e = 0 THEN 1 ELSE b * Pow(b, e - 1)

Lcm(a, b) == (a * b) \div Gcd(a, b)

(***************************************************************************)
(* core/entities.py, data/cleaning/match_cleaner.py, main.py               *)
(***************************************************************************)
MaxYears == 2             \* directories of DATASETS_DIR holding a worldcup.json
MaxMatchesPerYear == 1    \* matches of one worldcup.json
MaxGoals == 2             \* largest score of one side

TeamCodes == { "BRA", "ITA", "GER" }
TeamName(code) == CASE code = "BRA" -> "Brazil"
                    [] code = "ITA" -> "Italy"
                    [] OTHER        -> "Germany"

\* YEARS: the sorted directory names, as numbers.
YEARS == [ i \in 1..MaxYears |-> 1926 + 4 * i ]

\* The fields class ApiMatch declares.
ApiMatchFields == { "team_a", "team_b", "team_a_code", "team_b_code",
                    "score_a", "score_b", "goals" }

\* ApiMatch(**kwargs): a pydantic BaseModel keeps the declared fields and ignores
\* every other keyword.
ApiMatch(kwargs) == [ f \in ApiMatchFields \cap DOMAIN kwargs |-> kwargs[f] ]

\* match.<attr> raises AttributeError when the object has no such attribute.
HasAttr(m, attr) == attr \in DOMAIN m

\* The MatchInfo objects a worldcup.json can hold.
MatchInfos == [ team1 : TeamCodes, team2 : TeamCodes,
                score1 : 0..MaxGoals, score2 : 0..MaxGoals ]

RoundMatchLists == UNION { [ 1..n -> MatchInfos ] : n \in 0..MaxMatchesPerYear }

flatten_and_transform_matches(infos, year, competition) ==
    [ i \in DOMAIN infos |->
        ApiMatch([ team_a      |-> TeamName(infos[i].team1),
                   team_b      |-> TeamName(infos[i].team2),
                   team_a_code |-> infos[i].team1,
                   team_b_code |-> infos[i].team2,
                   score_a     |-> infos[i].score1,
                   score_b     |-> infos[i].score2,
                   goals       |-> << >>,
                   year        |-> year,
                   competition |-> competition ]) ]

Raised == [ raised |-> TRUE ]

SomeLacks(ms, attr) == \E i \in DOMAIN ms : ~HasAttr(ms[i], attr)

Plays(m, team) == m.team_a_code = team \/ m.team_b_code = team
TeamMatches(team, ms) == LET T(m) == Plays(m, team) IN SelectSeq(ms, T)
SortedByYear(ms) == StableSortByKeys(ms, [ i \in DOMAIN ms |-> ms[i].year ])
GoalsFor(m, team)     == IF m.team_a_code = team THEN m.score_a ELSE m.score_b
GoalsAgainst(m, team) == IF m.team_a_code = team THEN m.score_b ELSE m.score_a
Outcome(m, team) == IF GoalsFor(m, team) > GoalsAgainst(m, team) THEN "W"
                    ELSE IF GoalsFor(m, team) < GoalsAgainst(m, team) THEN "L"
                    ELSE "D"
SumOver(s, F(_)) ==
    LET RECURSIVE Acc(_)
        Acc(i) == IF i = 0 THEN 0 ELSE Acc(i - 1) + F(s[i])
    IN  Acc(Len(s))

(***************************************************************************)
(* analytics/features/history.py                                           *)
(***************************************************************************)
calculate_head_to_head(team_a_code, team_b_code, ms) ==
    LET Between(m) == \/ m.team_a_code = team_a_code /\ m.team_b_code = team_b_code
                      \/ m.team_a_code = team_b_code /\ m.team_b_code = team_a_code
        h2h == SelectSeq(ms, Between)
        \* perspective of A: the slot of A is decided by team_a_code alone
        ScoreA(m) == IF m.team_a_code = team_a_code THEN m.score_a ELSE m.score_b
        ScoreB(m) == IF m.team_a_code = team_a_code THEN m.score_b ELSE m.score_a
        WinA(m) == ScoreA(m) > ScoreB(m)
        WinB(m) == ScoreB(m) > ScoreA(m)
        Draw(m) == ScoreA(m) = ScoreB(m)
    IN  IF h2h # << >> /\ SomeLacks(h2h, "year")
        THEN Raised       \* head_to_head_matches.sort(key=lambda x: x.year, ...)
        ELSE [ raised        |-> FALSE,
               total_matches |-> Len(h2h),
               wins_a        |-> Count(h2h, WinA),
               wins_b        |-> Count(h2h, WinB),
               draws         |-> Count(h2h, Draw),
               goals_a       |-> SumOver(h2h, ScoreA),
               goals_b       |-> SumOver(h2h, ScoreB),
               recent_matches |->
                   StableSortByKeys(h2h, [ i \in DOMAIN h2h |-> 0 - h2h[i].year ]) ]

(***************************************************************************)
(* analytics/features/momentum.py                                          *)
(***************************************************************************)
DefaultSpan == 5
Points(m, team) == CASE Outcome(m, team) = "W" -> 3
                     [] Outcome(m, team) = "L" -> 0
                     [] OTHER                  -> 1

\* The unrounded EMA after the i-th match is EmaNum(points, i, span) / (span+1)^(i-1):
\* ema = price * k + ema * (1 - k) with k = 2 / (span + 1), seeded with points[1].
RECURSIVE EmaNum(_, _, _)
EmaNum(points, i, span) ==
    IF i = 1 THEN points[1]
    ELSE 2 * points[i] * Pow(span + 1, i - 2) + (span - 1) * EmaNum(points, i - 1, span)

\* Values are in hundredths: round(ema, 2).
calculate_momentum(team_code, ms, span) ==
    LET tm == TeamMatches(team_code, ms)
    IN  IF tm # << >> /\ SomeLacks(tm, "year")
        THEN Raised       \* team_matches.sort(key=lambda x: x.year)
        ELSE IF tm # << >> /\ SomeLacks(tm, "competition")
        THEN Raised       \* "competition": match.competition
        ELSE
        LET sorted == SortedByYear(tm)
            points == [ i \in DOMAIN sorted |-> Points(sorted[i], team_code) ]
            ema_history == [ i \in DOMAIN sorted |->
                RoundHalfEven(100 * EmaNum(points, i, span), Pow(span + 1, i - 1)) ]
            history_data == [ i \in DOMAIN sorted |->
                [ opponent |-> IF sorted[i].team_a_code = team_code
                               THEN sorted[i].team_b ELSE sorted[i].team_a,
                  result   |-> Outcome(sorted[i], team_code),
                  points   |-> points[i],
                  year     |-> sorted[i].year,
                  momentum_score |-> ema_history[i] ] ]
            n == Len(sorted)
        IN  IF n = 0
            THEN [ raised |-> FALSE, current_momentum |-> 0, history |-> << >> ]
            ELSE [ raised |-> FALSE,
                   current_momentum |-> ema_history[n],
                   history |-> SubSeq(history_data, Max2(1, n - 9), n) ]

(***************************************************************************)
(* analytics/features/goal_stats.py                                        *)
(***************************************************************************)
\* Averages are in hundredths: round(x / n, 2).
GoalTotals(tm, team) ==
    LET GF(m) == GoalsFor(m, team)
        GA(m) == GoalsAgainst(m, team)
        n  == Len(tm)
        gf == SumOver(tm, GF)
        ga == SumOver(tm, GA)
    IN  [ goals_for |-> gf, goals_against |-> ga, matches_played |-> n,
          avg_goals_for     |-> IF n > 0 THEN RoundHalfEven(100 * gf, n) ELSE 0,
          avg_goals_against |-> IF n > 0 THEN RoundHalfEven(100 * ga, n) ELSE 0,
          goal_difference   |-> IF n > 0 THEN gf - ga ELSE 0 ]

calculate_goal_stats(team_code, ms) ==
    LET tm == TeamMatches(team_code, ms)
    IN  IF tm # << >> /\ (SomeLacks(tm, "competition") \/ SomeLacks(tm, "year"))
        THEN Raised       \* comp_key = f"{match.competition} {match.year}"
        ELSE
        LET keys == { << tm[i].competition, tm[i].year >> : i \in DOMAIN tm }
            OfKey(k) == LET K(m) == << m.competition, m.year >> = k
                        IN  SelectSeq(tm, K)
        IN  [ raised |-> FALSE,
              global |-> GoalTotals(tm, team_code),
              by_competition |-> [ k \in keys |-> GoalTotals(OfKey(k), team_code) ] ]

(***************************************************************************)
(* analytics/features/streaks.py                                           *)
(***************************************************************************)
\* Length of the run of results[n] that ends at position n.
RECURSIVE RunEndingAt(_, _)
RunEndingAt(results, n) ==
    IF n = 0 THEN 0
    ELSE IF n > 1 /\ results[n - 1] = results[n]
         THEN 1 + RunEndingAt(results, n - 1)
         ELSE 1

\* The temp_streaks / longest_streaks scan for one key (keys is the set of
\* outcomes that extend the streak), with the final check after the loop.
RECURSIVE LongestStreak(_, _, _, _, _)
LongestStreak(results, keys, i, temp, longest) ==
    IF i > Len(results) THEN Max2(longest, temp)
    ELSE IF results[i] \in keys
         THEN LongestStreak(results, keys, i + 1, temp + 1, longest)
         ELSE LongestStreak(results, keys, i + 1, 0, Max2(longest, temp))

\* transitions[prev][next_res] and transitions[prev]["total"] after the loop
\* over range(len(results) - 1).
TransitionCount(results, prev, next_res) ==
    Cardinality({ i \in 1..(Len(results) - 1) :
                    results[i] = prev /\ results[i + 1] = next_res })
TransitionTotal(results, prev) ==
    Cardinality({ i \in 1..(Len(results) - 1) : results[i] = prev })

\* probabilities[prev_res]; the probabilities are in hundredths: round(x / total, 2).
TransitionProbabilities(results, prev_res) ==
    LET total == TransitionTotal(results, prev_res)
    IN  IF total > 0
        THEN [ W |-> RoundHalfEven(100 * TransitionCount(results, prev_res, "W"), total),
               D |-> RoundHalfEven(100 * TransitionCount(results, prev_res, "D"), total),
               L |-> RoundHalfEven(100 * TransitionCount(results, prev_res, "L"), total),
               sample_size |-> total ]
        ELSE [ W |-> 0, D |-> 0, L |-> 0, sample_size |-> 0 ]

calculate_streak_stats(team_code, ms) ==
    LET tm == TeamMatches(team_code, ms)
    IN  IF tm # << >> /\ SomeLacks(tm, "year")
        THEN Raised       \* team_matches.sort(key=lambda x: x.year)
        ELSE
        LET sorted  == SortedByYear(tm)
            results == [ i \in DOMAIN sorted |-> Outcome(sorted[i], team_code) ]
            n == Len(results)
        IN  [ raised |-> FALSE,
              current_streak |-> IF n = 0 THEN [ type |-> None, count |-> 0 ]
                                 ELSE [ type |-> results[n],
                                        count |-> RunEndingAt(results, n) ],
              longest_streaks |->
                  [ W |-> LongestStreak(results, { "W" }, 1, 0, 0),
                    D |-> LongestStreak(results, { "D" }, 1, 0, 0),
                    L |-> LongestStreak(results, { "L" }, 1, 0, 0),
                    Unbeaten |-> LongestStreak(results, { "W", "D" }, 1, 0, 0) ],
              transitions |->
                  [ prev_res \in { "W", "D", "L" } |->
                      TransitionProbabilities(results, prev_res) ],
              total_matches |-> n ]

(***************************************************************************)
(* analytics/features/graph_analysis.py                                    *)
(***************************************************************************)
\* wins_graph.get(code, []): the losers of the matches code won, in match order.
Losers(code, ms) ==
    LET Won(m) == \/ m.score_a > m.score_b /\ m.team_a_code = code
                  \/ m.score_b > m.score_a /\ m.team_b_code = code
        won == SelectSeq(ms, Won)
    IN  [ i \in DOMAIN won |->
            IF won[i].score_a > won[i].score_b THEN won[i].team_b_code
            ELSE won[i].team_a_code ]

\* The (victim_code, indirect_victim_code) pairs the two nested loops visit.
RECURSIVE SecondOrder(_, _, _)
SecondOrder(direct_victims, i, ms) ==
    IF i > Len(direct_victims) THEN << >>
    ELSE [ j \in DOMAIN Losers(direct_victims[i], ms) |->
             << direct_victims[i], Losers(direct_victims[i], ms)[j] >> ]
         \o SecondOrder(direct_victims, i + 1, ms)

\* teams_map.get(code, code): the name the last match wrote for the code.
MappedName(code, ms) ==
    LET At(i) == ms[i].team_a_code = code \/ ms[i].team_b_code = code
        last  == CHOOSE i \in DOMAIN ms : At(i) /\ \A j \in DOMAIN ms : At(j) => j <= i
    IN  IF \E i \in DOMAIN ms : At(i)
        THEN IF ms[last].team_b_code = code THEN ms[last].team_b ELSE ms[last].team_a
        ELSE code

Relation(pair, ms) ==
    [ intermediate_team    |-> MappedName(pair[1], ms),
      indirect_victim      |-> MappedName(pair[2], ms),
      intermediate_code    |-> pair[1],
      indirect_victim_code |-> pair[2] ]

\* Variant of IndirectRelations without seen_indirect_victims (lines 49, 64
\* and 71).
RECURSIVE IndirectRelations_NoSeen(_, _, _, _, _)
IndirectRelations_NoSeen(pairs, i, team_code, seen, ms) ==
    IF i > Len(pairs) THEN << >>
    ELSE IF pairs[i][2] # team_code
    THEN << Relation(pairs[i], ms) >>
         \o IndirectRelations_NoSeen(pairs, i + 1, team_code, seen, ms)
    ELSE IndirectRelations_NoSeen(pairs, i + 1, team_code, seen, ms)

\* indirect_relations: a pair is appended unless its indirect victim is the
\* team itself or the pair was seen before.
RECURSIVE IndirectRelations(_, _, _, _, _)
IndirectRelations(pairs, i, team_code, seen, ms) ==
    IF i > Len(pairs) THEN << >>
    ELSE IF pairs[i][2] # team_code /\ pairs[i] \notin seen
    THEN << Relation(pairs[i], ms) >>
         \o IndirectRelations(pairs, i + 1, team_code, seen \cup { pairs[i] }, ms)
    ELSE IndirectRelations(pairs, i + 1, team_code, seen, ms)

\* Variant of calculate_graph_stats that lists a relation once for every
\* pair of matches that supports it; C17 does not hold of it.
calculate_graph_stats_NoSeen(team_code, ms) ==
    LET indirect_relations ==
            IndirectRelations_NoSeen(SecondOrder(Losers(team_code, ms), 1, ms), 1,
                                     team_code, {}, ms)
    IN  [ raised |-> FALSE,
          indirect_wins |-> indirect_relations,
          total_indirect_wins |-> Len(indirect_relations) ]

calculate_graph_stats(team_code, ms) ==
    LET indirect_relations ==
            IndirectRelations(SecondOrder(Losers(team_code, ms), 1, ms), 1,
                              team_code, {}, ms)
    IN  [ raised |-> FALSE,
          indirect_wins |-> indirect_relations,
          total_indirect_wins |-> Len(indirect_relations) ]

(***************************************************************************)
(* analytics/features/home_away.py, analytics/features/goal_percentage.py  *)
(***************************************************************************)
\* stats[condition]; the win percentage is in tenths, the averages in hundredths.
ConditionStats(cm, team_code) ==
    LET GF(m) == GoalsFor(m, team_code)
        GA(m) == GoalsAgainst(m, team_code)
        Win(m)  == Outcome(m, team_code) = "W"
        Draw(m) == Outcome(m, team_code) = "D"
        Loss(m) == Outcome(m, team_code) = "L"
        mp == Len(cm)
    IN  [ matches_played |-> mp,
          wins |-> Count(cm, Win), draws |-> Count(cm, Draw), losses |-> Count(cm, Loss),
          goals_for |-> SumOver(cm, GF), goals_against |-> SumOver(cm, GA),
          win_percentage    |-> IF mp > 0 THEN RoundHalfEven(1000 * Count(cm, Win), mp) ELSE 0,
          avg_goals_for     |-> IF mp > 0 THEN RoundHalfEven(100 * SumOver(cm, GF), mp) ELSE 0,
          avg_goals_against |-> IF mp > 0 THEN RoundHalfEven(100 * SumOver(cm, GA), mp) ELSE 0 ]

\* home: the team is team_a; away: it is team_b and not team_a.
calculate_home_away_stats(team_code, ms) ==
    LET Home(m) == m.team_a_code = team_code
        Away(m) == m.team_a_code # team_code /\ m.team_b_code = team_code
    IN  [ raised |-> FALSE,
          home |-> ConditionStats(SelectSeq(ms, Home), team_code),
          away |-> ConditionStats(SelectSeq(ms, Away), team_code) ]

\* goals_per_match is in hundredths.
calculate_goal_percentage_stats(team_code, ms) ==
    LET tm == TeamMatches(team_code, ms)
        GF(m) == GoalsFor(m, team_code)
    IN  [ raised |-> FALSE,
          available |-> TRUE,
          goals_per_match |-> IF Len(tm) > 0 THEN RoundHalfEven(100 * SumOver(tm, GF), Len(tm))
                              ELSE 0,
          total_goals |-> SumOver(tm, GF),
          matches_played |-> Len(tm) ]

(***************************************************************************)
(* analytics/stats_calculator.py                                           *)
(***************************************************************************)
\* The classes core/entities.py defines.
EntityClasses ==
    { "TeamInfo", "GoalInfo", "MatchInfo", "RoundInfo", "WorldCupData", "ApiGoal",
      "ApiMatch", "TeamGroupInfo", "GroupInfo", "WorldCupGroupData" }

\* The percentages are exact fractions << numerator, denominator >>.
calculate_team_stats(ms, team_code) ==
    IF "TeamStats" \notin EntityClasses
    THEN Raised       \* from app.core.entities import ApiMatch, TeamStats: ImportError
    ELSE
    LET tm == TeamMatches(team_code, ms)
        GF(m) == GoalsFor(m, team_code)
        GA(m) == GoalsAgainst(m, team_code)
        Win(m)  == m.score_a # m.score_b /\ Outcome(m, team_code) = "W"
        Draw(m) == m.score_a = m.score_b
        Loss(m) == ~Win(m) /\ ~Draw(m)
        n == Len(tm)
    IN  [ raised |-> FALSE,
          wins |-> Count(tm, Win), losses |-> Count(tm, Loss), draws |-> Count(tm, Draw),
          total_matches |-> n,
          win_percentage  |-> IF n > 0 THEN << 100 * Count(tm, Win), n >> ELSE << 0, 1 >>,
          loss_percentage |-> IF n > 0 THEN << 100 * Count(tm, Loss), n >> ELSE << 0, 1 >>,
          draw_percentage |-> IF n > 0 THEN << 100 * Count(tm, Draw), n >> ELSE << 0, 1 >>,
          goals_for |-> SumOver(tm, GF), goals_against |-> SumOver(tm, GA) ]

(***************************************************************************)
(* analytics/match_predictor.py                                            *)
(* Sub-scores are exact fractions << numerator, denominator >>; the four   *)
(* weights 0.30, 0.25, 0.25, 0.20 are kept as the integers 6, 5, 5, 4      *)
(* (twentieths).  Probabilities are in tenths of a percent point:          *)
(* round(prob, 1).                                                         *)
(***************************************************************************)
W_H2H    == 6
W_MOM    == 5
W_GOAL   == 5
W_STREAK == 4

\* get_streak_val in fifths: W -> count, D -> count * 0.2, L -> -count, none -> 0.
get_streak_val(streak_data) ==
    LET cs == streak_data.current_streak
    IN  CASE cs.type = None -> 0
          [] cs.type = "W"  -> 5 * cs.count
          [] cs.type = "D"  -> cs.count
          [] cs.type = "L"  -> 0 - 5 * cs.count
          [] OTHER          -> 0

\* max(0.0, min(1.0, (val + 5) / 10)) with val in fifths: a fraction over 50.
StreakScore(val5) == << Max2(0, Min2(50, val5 + 25)), 50 >>

\* (score_a * w) summed over the four factors, over the common denominator den.
WeightedSum(h, m, g, s, den) ==
      W_H2H    * h[1] * (den \div h[2])
    + W_MOM    * m[1] * (den \div m[2])
    + W_GOAL   * g[1] * (den \div g[2])
    + W_STREAK * s[1] * (den \div s[2])

\* The closing lines of predict_match: the two weighted sums are normalised
\* and rounded to one decimal.
Probabilities(team_a_code, team_b_code, final_score_a, final_score_b, details) ==
    LET fg == Gcd(final_score_a, final_score_b)
        total_score == final_score_a + final_score_b
    IN  [ raised |-> FALSE,
          team_a |-> team_a_code,
          team_b |-> team_b_code,
          probability_a |-> IF total_score = 0 THEN 500
              ELSE RoundScaled(100 * (final_score_a \div fg), total_score \div fg, 1),
          probability_b |-> IF total_score = 0 THEN 500
              ELSE RoundScaled(100 * (final_score_b \div fg), total_score \div fg, 1),
          details |-> details,
          factors |-> [ h2h_weight |-> W_H2H, momentum_weight |-> W_MOM,
                        goal_weight |-> W_GOAL, streak_weight |-> W_STREAK ] ]

\* The weighting of the eight sub-scores (each a fraction), over the common
\* denominator den.
Weighted(team_a_code, team_b_code, h_a, h_b, m_a, m_b, g_a, g_b, s_a, s_b, den) ==
    Probabilities(team_a_code, team_b_code,
                  WeightedSum(h_a, m_a, g_a, s_a, den),
                  WeightedSum(h_b, m_b, g_b, s_b, den),
                  [ h2h_score_a      |-> RoundHalfEven(100 * h_a[1], h_a[2]),
                    h2h_score_b      |-> RoundHalfEven(100 * h_b[1], h_b[2]),
                    momentum_score_a |-> RoundHalfEven(100 * m_a[1], m_a[2]),
                    momentum_score_b |-> RoundHalfEven(100 * m_b[1], m_b[2]),
                    goal_power_a     |-> RoundHalfEven(100 * g_a[1], g_a[2]),
                    goal_power_b     |-> RoundHalfEven(100 * g_b[1], g_b[2]),
                    streak_score_a   |-> RoundHalfEven(100 * s_a[1], s_a[2]),
                    streak_score_b   |-> RoundHalfEven(100 * s_b[1], s_b[2]) ])

\* 1. head to head: a draw is half a win for each side
H2HScore(total, wins, draws) ==
    IF total > 0 THEN << 2 * wins + draws, 2 * total >> ELSE << 1, 2 >>

\* 2. momentum: min(current_momentum / 3.0, 1.0), momentum in hundredths
MomentumScore(current_momentum) == << Min2(current_momentum, 300), 300 >>

\* 3. goal power: attack * (1 + defense / 2.0), in units of 1/20000
GoalPower(avg_goals_for, opp_avg_goals_against) ==
    avg_goals_for * (200 + opp_avg_goals_against)
GoalScore(power, other_power) ==
    IF power + other_power = 0 THEN << 1, 2 >>
    ELSE << power \div Gcd(power, other_power),
            (power + other_power) \div Gcd(power, other_power) >>

\* The four factors of predict_match from the statistics of the two teams.
Factors(team_a_code, team_b_code, h2h, mom_a, mom_b, power_a, power_b, val_a, val_b) ==
    Weighted(team_a_code, team_b_code,
             H2HScore(h2h.total_matches, h2h.wins_a, h2h.draws),
             H2HScore(h2h.total_matches, h2h.wins_b, h2h.draws),
             MomentumScore(mom_a.current_momentum),
             MomentumScore(mom_b.current_momentum),
             GoalScore(power_a, power_b),
             GoalScore(power_b, power_a),
             StreakScore(val_a),
             StreakScore(val_b),
             Lcm(Lcm(2 * Max2(1, h2h.total_matches), 300),
                 Lcm(GoalScore(power_a, power_b)[2], 50)))

\* predict_match once the seven statistics calls have been made: an exception
\* in any of them leaves predict_match.
PredictFrom(team_a_code, team_b_code, h2h, mom_a, mom_b, goals_a, goals_b, streak_a, streak_b) ==
    IF \/ h2h.raised \/ mom_a.raised \/ mom_b.raised \/ goals_a.raised
       \/ goals_b.raised \/ streak_a.raised \/ streak_b.raised
    THEN Raised
    ELSE Factors(team_a_code, team_b_code, h2h, mom_a, mom_b,
                 GoalPower(goals_a.global.avg_goals_for,
                           goals_b.global.avg_goals_against),
                 GoalPower(goals_b.global.avg_goals_for,
                           goals_a.global.avg_goals_against),
                 get_streak_val(streak_a), get_streak_val(streak_b))

predict_match(team_a_code, team_b_code, ms) ==
    PredictFrom(team_a_code, team_b_code,
                calculate_head_to_head(team_a_code, team_b_code, ms),
                calculate_momentum(team_a_code, ms, DefaultSpan),
                calculate_momentum(team_b_code, ms, DefaultSpan),
                calculate_goal_stats(team_a_code, ms),
                calculate_goal_stats(team_b_code, ms),
                calculate_streak_stats(team_a_code, ms),
                calculate_streak_stats(team_b_code, ms))

(***************************************************************************)
(* Startup (main.py lines 28-52) and the prediction query                  *)
(***************************************************************************)
\* One pass of "for year in YEARS": the year's worldcup.json is flattened and
\* appended to all_matches.
LoadYear ==
    /\ main_pc = "loading"
    /\ yearsLoaded < MaxYears
    /\ \E infos \in RoundMatchLists :
         matches' = matches \o
             flatten_and_transform_matches(infos, YEARS[yearsLoaded + 1], "World Cup")
    /\ yearsLoaded' = yearsLoaded + 1
    /\ UNCHANGED << pred, main_pc, response, validateVars, parseVars, scoreVars,
                    convertVars, callVars >>

\* predict_match(team_a, team_b, MATCHES_DATA) once startup has finished.
PredictMatch ==
    /\ yearsLoaded = MaxYears
    /\ \E a \in TeamCodes, b \in TeamCodes :
         pred' = [ a |-> a, b |-> b, out |-> predict_match(a, b, matches) ]
    /\ UNCHANGED << matches, yearsLoaded, main_pc, response, validateVars, parseVars,
                    scoreVars, convertVars, callVars >>

InitPredict == IdlePredict /\ IdleValidate /\ IdleParse /\ IdleScore /\ IdleConvert /\ IdleCall
NextPredict == LoadYear \/ PredictMatch
SpecPredict == InitPredict /\ [][NextPredict]_vars

(***************************************************************************)
(* C1 (stated as claimed; refuted by the code, see RESULTS.json).          *)
(* For any match list and any two team codes, predict_match returns        *)
(* probability_a and probability_b whose sum is within 0.1 of 100.0        *)
(* (probabilities are in tenths here: within 1 of 1000).                   *)
(***************************************************************************)
C1_ProbabilitiesSumTo100 ==
    pred # Idle =>
        /\ ~pred.out.raised
        /\ Abs(pred.out.probability_a + pred.out.probability_b - 1000) <= 1

(***************************************************************************)
(* Python values handed to the validator.  JSON data is untyped, so every  *)
(* value carries its type; a dict is [t |-> "dict", d |-> function from    *)
(* its keys to values].                                                    *)
(***************************************************************************)
PyNone    == [ t |-> "none" ]
PyInt(n)  == [ t |-> "int",  v |-> n ]
PyStr(s)  == [ t |-> "str",  v |-> s ]
PyBool(b) == [ t |-> "bool", v |-> b ]
PyList(s) == [ t |-> "list", v |-> s ]
PyDict(f) == [ t |-> "dict", d |-> f ]

IsInt(x)  == x.t = "int"
IsStr(x)  == x.t = "str"
IsList(x) == x.t = "list"
IsDict(x) == x.t = "dict"

\* Truth value of a Python object ("if x", "not x").
Truthy(x) == CASE x.t = "none" -> FALSE
               [] x.t = "int"  -> x.v # 0
               [] x.t = "str"  -> x.v # ""
               [] x.t = "bool" -> x.v
               [] x.t = "list" -> x.v # << >>
               [] OTHER        -> DOMAIN x.d # {}

\* key in dict, dict.get(key, default)
HasKey(dict, key) == key \in DOMAIN dict.d
Get(dict, key, default) == IF HasKey(dict, key) THEN dict.d[key] ELSE default

\* a == b on Python values of the kinds above
PyEq(a, b) == a.t = b.t /\ (a.t = "none" \/ a = b)

\* a + b: defined for two ints and for two strs, TypeError otherwise.
AddRaises(a, b) == ~((IsInt(a) /\ IsInt(b)) \/ (IsStr(a) /\ IsStr(b)))

(***************************************************************************)
(* data/cleaning/team_normalizer.py: get_team_info on the names used here  *)
(***************************************************************************)
\* TEAM_DATABASE, in the order of the dict, restricted to the entries the team
\* names of the model can hit: << key, canonical name, code >>.
TEAM_DATABASE ==
    << << "dr congo", "DR Congo", "COD" >>,
       << "zaire", "DR Congo", "COD" >>,
       << "czech republic", "Czech Republic", "CZE" >>,
       << "czechoslovakia", "Czechoslovakia", "TCH" >>,
       << "germany", "Germany", "GER" >>,
       << "west germany", "Germany", "GER" >>,
       << "east germany", "East Germany", "GDR" >>,
       << "italy", "Italy", "ITA" >>,
       << "russia", "Russia", "RUS" >>,
       << "serbia", "Serbia", "SRB" >>,
       << "serbia and montenegro", "Serbia and Montenegro", "SCG" >>,
       << "slovakia", "Slovakia", "SVK" >>,
       << "soviet union", "Soviet Union", "URS" >>,
       << "yugoslavia", "Yugoslavia", "YUG" >>,
       << "us", "United States", "USA" >>,
       << "brazil", "Brazil", "BRA" >>,
       << "peru", "Peru", "PER" >> >>

\* The team names of the model: those of the database entries above, a name
\* with an accent, a name that holds a key of the database, and a name the
\* database does not know.
TeamNames ==
    { "Brazil", "Italy", "Germany", "West Germany", "East Germany", "Zaire",
      "DR Congo", "Yugoslavia", "Serbia", "Serbia and Montenegro",
      "Czechoslovakia", "Czech Republic", "Slovakia", "Soviet Union", "Russia",
      "Perú", "Belarus", "Atlantis" }

\* normalize_team_name(name).lower() for the names of the model; none of them
\* holds an abbreviation or surplus whitespace.
LookupKey(name) ==
    CASE name = "Brazil" -> "brazil"
      [] name = "Italy" -> "italy"
      [] name = "Germany" -> "germany"
      [] name = "West Germany" -> "west germany"
      [] name = "East Germany" -> "east germany"
      [] name = "Zaire" -> "zaire"
      [] name = "DR Congo" -> "dr congo"
      [] name = "Yugoslavia" -> "yugoslavia"
      [] name = "Serbia" -> "serbia"
      [] name = "Serbia and Montenegro" -> "serbia and montenegro"
      [] name = "Czechoslovakia" -> "czechoslovakia"
      [] name = "Czech Republic" -> "czech republic"
      [] name = "Slovakia" -> "slovakia"
      [] name = "Soviet Union" -> "soviet union"
      [] name = "Russia" -> "russia"
      [] name = "Perú" -> "perú"
      [] name = "Belarus" -> "belarus"
      [] name = "Atlantis" -> "atlantis"
      [] OTHER -> name

\* _remove_diacritics on the keys of the model
_remove_diacritics(text) == IF text = "perú" THEN "peru" ELSE text

\* "inner in outer" for the keys of the model
KeyContains(outer, inner) ==
    \/ outer = inner
    \/ << outer, inner >> \in { << "west germany", "germany" >>,
                                << "east germany", "germany" >>,
                                << "serbia and montenegro", "serbia" >>,
                                << "czechoslovakia", "slovakia" >>,
                                << "russia", "us" >>,
                                << "belarus", "us" >> }

NoTeam == [ found |-> FALSE ]

\* TeamInfo(name=canonical, code=code, ...) of the first entry among hits, the
\* indices of the entries a loop over TEAM_DATABASE.items() accepts.
FirstHit(hits) ==
    LET i == CHOOSE h \in hits : \A g \in hits : h <= g
    IN  [ found |-> TRUE, name |-> TEAM_DATABASE[i][2], code |-> TEAM_DATABASE[i][3] ]

DirectHits(lookup_key) ==
    { i \in DOMAIN TEAM_DATABASE : TEAM_DATABASE[i][1] = lookup_key }
AsciiHits(lookup_key) ==
    { i \in DOMAIN TEAM_DATABASE :
        _remove_diacritics(TEAM_DATABASE[i][1]) = _remove_diacritics(lookup_key) }
PartialHits(lookup_key) ==
    { i \in DOMAIN TEAM_DATABASE :
        \/ KeyContains(TEAM_DATABASE[i][1], lookup_key)
        \/ KeyContains(lookup_key, TEAM_DATABASE[i][1]) }

\* Variant of LookupTeam without the direct lookup and the accent-free
\* comparison: the first entry that holds the key or is held by it wins.
LookupTeam_PartialOnly(lookup_key) ==
    IF PartialHits(lookup_key) # {} THEN FirstHit(PartialHits(lookup_key))
    ELSE NoTeam

\* Direct lookup, then the comparison without diacritics, then partial matching.
LookupTeam(lookup_key) ==
    IF DirectHits(lookup_key) # {} THEN FirstHit(DirectHits(lookup_key))
    ELSE IF AsciiHits(lookup_key) # {} THEN FirstHit(AsciiHits(lookup_key))
    ELSE IF PartialHits(lookup_key) # {} THEN FirstHit(PartialHits(lookup_key))
    ELSE NoTeam

get_team_info(name) ==
    IF name = "" THEN NoTeam ELSE LookupTeam(LookupKey(name))

\* normalize_team_list: a placeholder with the original name and the code
\* "???" stands for a name the database does not know.
normalize_team_list(teams) ==
    [ i \in DOMAIN teams |->
        IF get_team_info(teams[i]).found
        THEN [ name |-> get_team_info(teams[i]).name,
               code |-> get_team_info(teams[i]).code ]
        ELSE [ name |-> teams[i], code |-> "???" ] ]

\* len(code) for the codes of the model
CodeLen(code) == CASE code = ""   -> 0
                   [] code = "IT" -> 2
                   [] OTHER       -> 3

(***************************************************************************)
(* data/cleaning/match_validator.py: ValidationResult                      *)
(***************************************************************************)
ValidationResult(is_valid) ==
    [ raised |-> FALSE, is_valid |-> is_valid, errors |-> << >>, warnings |-> << >> ]

\* Variant of add_error that leaves is_valid as it is (no line 28); C28 does
\* not hold of it.
add_error_KeepsValidity(r, message) ==
    [ r EXCEPT !.errors = Append(@, message) ]

add_error(r, message) ==
    [ r EXCEPT !.errors = Append(@, message), !.is_valid = FALSE ]

\* Variant of add_warning that also marks the result invalid; C13 does not
\* hold of it.
add_warning_Invalidates(r, message) ==
    [ r EXCEPT !.warnings = Append(@, message), !.is_valid = FALSE ]

add_warning(r, message) ==
    [ r EXCEPT !.warnings = Append(@, message) ]

\* Variant of merge that keeps the receiver's validity (no lines 38-39); C14
\* does not hold of it.
merge_KeepsValidity(self, other) ==
    [ raised   |-> FALSE,
      is_valid |-> self.is_valid,
      errors   |-> self.errors \o other.errors,
      warnings |-> self.warnings \o other.warnings ]

\* self.merge(other); a call that raised makes the whole validation raise
\* (a call after the raising one is not made).
merge(self, other) ==
    IF self.raised THEN Raised
    ELSE IF other.raised THEN Raised
    ELSE [ raised   |-> FALSE,
           is_valid |-> IF ~other.is_valid THEN FALSE ELSE self.is_valid,
           errors   |-> self.errors \o other.errors,
           warnings |-> self.warnings \o other.warnings ]

\* Add message when cond holds.
ErrorIf(r, cond, message)   == IF cond THEN add_error(r, message) ELSE r
WarningIf(r, cond, message) == IF cond THEN add_warning(r, message) ELSE r

(***************************************************************************)
(* data/cleaning/match_validator.py: the validation functions.  Messages   *)
(* are kept without the values the f-strings interpolate.                  *)
(***************************************************************************)
\* A team is a dict {name, code} (nested format) or a str (flat format).
NameOfTeam(team) == IF IsDict(team) THEN Get(team, "name", PyStr("")).v ELSE team.v
CodeOfTeam(team) == IF IsDict(team) THEN Get(team, "code", PyStr("")).v ELSE ""

_validate_teams(match) ==
    LET team1 == Get(match, "team1", PyDict(<< >>))
        team2 == Get(match, "team2", PyDict(<< >>))
        team1_name == NameOfTeam(team1)
        team1_code == CodeOfTeam(team1)
        team2_name == NameOfTeam(team2)
        team2_code == CodeOfTeam(team2)
        r0 == ValidationResult(TRUE)
        r1 == ErrorIf(r0, team1_name = "", "Team 1 name is empty")
        r2 == ErrorIf(r1, team2_name = "", "Team 2 name is empty")
        r3 == ErrorIf(r2, team1_name # "" /\ team2_name # "" /\ team1_name = team2_name,
                      "Team 1 and Team 2 are the same")
        r4 == WarningIf(r3, team1_code # "" /\ CodeLen(team1_code) # 3,
                        "Team 1 code is not 3 characters")
        r5 == WarningIf(r4, team2_code # "" /\ CodeLen(team2_code) # 3,
                        "Team 2 code is not 3 characters")
        r6 == WarningIf(r5, team1_name # "" /\ ~get_team_info(team1_name).found,
                        "Team 1 not found in database")
        r7 == WarningIf(r6, team2_name # "" /\ ~get_team_info(team2_name).found,
                        "Team 2 not found in database")
    IN  r7

\* not isinstance(x, int) or x < 0
BadScore(x) == ~IsInt(x) \/ x.v < 0

_validate_scores(match, is_knockout) ==
    LET score1  == Get(match, "score1", PyNone)
        score2  == Get(match, "score2", PyNone)
        score1i == Get(match, "score1i", PyNone)
        score2i == Get(match, "score2i", PyNone)
        r0 == ValidationResult(TRUE)
        r1 == ErrorIf(r0, BadScore(score1), "Invalid score1")
        r2 == ErrorIf(r1, BadScore(score2), "Invalid score2")
    IN  IF score1i # PyNone /\ score2i # PyNone
        THEN LET r3 == ErrorIf(r2, BadScore(score1i), "Invalid halftime score1i")
                 r4 == ErrorIf(r3, BadScore(score2i), "Invalid halftime score2i")
                 r5 == WarningIf(r4, /\ IsInt(score1) /\ IsInt(score1i)
                                     /\ score1i.v > score1.v /\ ~is_knockout,
                                 "Halftime score1 > final score1")
                 r6 == WarningIf(r5, /\ IsInt(score2) /\ IsInt(score2i)
                                     /\ score2i.v > score2.v /\ ~is_knockout,
                                 "Halftime score2 > final score2")
             IN  r6
        ELSE r2

\* The date strings of the model and what re.match(r'^\d{4}-\d{2}-\d{2}$') and
\* datetime.strptime(..., '%Y-%m-%d') make of them.
DateStrings == { "1994-07-17", "1994-02-30", "17 July", "" }
DateFormatOk(s) == s \in { "1994-07-17", "1994-02-30",
                            "1930-07-13", "1930-07-14", "1930-07-30" }
DateIsReal(s)   == s \in { "1994-07-17", "1930-07-13", "1930-07-14", "1930-07-30" }

_validate_date(date_str) ==
    IF ~Truthy(date_str)
    THEN add_error(ValidationResult(TRUE), "Date is empty")
    ELSE IF ~IsStr(date_str)
    THEN Raised           \* re.match on a non-string: TypeError
    ELSE IF ~DateFormatOk(date_str.v)
    THEN add_error(ValidationResult(TRUE), "Invalid date format")
    ELSE ErrorIf(ValidationResult(TRUE), ~DateIsReal(date_str.v), "Invalid date")

TimeFormatOk(s) == s \in { "19:00", "25:00", "00:00" }
TimeIsReal(s)   == s \in { "19:00", "00:00" }

_validate_time(time_str) ==
    IF ~Truthy(time_str)
    THEN ValidationResult(TRUE)
    ELSE IF ~IsStr(time_str)
    THEN Raised           \* re.match on a non-string: TypeError
    ELSE IF ~TimeFormatOk(time_str.v)
    THEN add_warning(ValidationResult(TRUE), "Time format should be HH:MM")
    ELSE WarningIf(ValidationResult(TRUE), ~TimeIsReal(time_str.v), "Invalid time")

\* The per-side counters the function keeps (own goals go to the opponent).
IsOwnGoal(goal) == IsDict(goal) /\ Truthy(Get(goal, "owngoal", PyBool(FALSE)))
SideGoals(own_list, other_list) ==
    LET NotOwn(g) == ~IsOwnGoal(g)
    IN  Count(own_list, NotOwn) + Count(other_list, IsOwnGoal)

_validate_goals_consistency(match) ==
    LET goals1 == Get(match, "goals1", PyList(<< >>))
        goals2 == Get(match, "goals2", PyList(<< >>))
        score1 == Get(match, "score1", PyInt(0))
        score2 == Get(match, "score2", PyInt(0))
    IN  IF ~Truthy(goals1) /\ ~Truthy(goals2)
        THEN ValidationResult(TRUE)
        ELSE IF ~IsList(goals1) \/ ~IsList(goals2)
        THEN Raised       \* for goal in goals1 / len(goals1) on a non-sequence
        ELSE IF AddRaises(score1, score2)
        THEN Raised       \* total_score = score1 + score2: TypeError
        ELSE
        LET team1_goals == SideGoals(goals1.v, goals2.v)    \* computed, never read
            team2_goals == SideGoals(goals2.v, goals1.v)    \* computed, never read
            total_goals_from_lists == Len(goals1.v) + Len(goals2.v)
            \* an int total when both scores are ints; a str concatenation
            \* never equals the int count
            differs == IF IsInt(score1) THEN total_goals_from_lists # score1.v + score2.v
                       ELSE TRUE
        IN  WarningIf(ValidationResult(TRUE),
                      total_goals_from_lists > 0 /\ differs,
                      "Goals count mismatch")

\* Variant of _validate_knockout_fields without the shootout comparison
\* (lines 297-303); C7 does not hold of it.
_validate_knockout_fields_NoShootout(match) ==
    LET score1_et == Get(match, "score1et", PyNone)
        score2_et == Get(match, "score2et", PyNone)
        score1_p  == Get(match, "score1p", PyNone)
        score2_p  == Get(match, "score2p", PyNone)
    IN  WarningIf(ValidationResult(TRUE),
                  /\ score1_et # PyNone /\ score2_et # PyNone
                  /\ PyEq(score1_et, score2_et)
                  /\ (score1_p = PyNone \/ score2_p = PyNone),
                  "Match ended level after ET but no penalty scores provided")

_validate_knockout_fields(match) ==
    LET score1_et == Get(match, "score1et", PyNone)
        score2_et == Get(match, "score2et", PyNone)
        score1_p  == Get(match, "score1p", PyNone)
        score2_p  == Get(match, "score2p", PyNone)
        r0 == ValidationResult(TRUE)
        r1 == WarningIf(r0, /\ score1_et # PyNone /\ score2_et # PyNone
                            /\ PyEq(score1_et, score2_et)
                            /\ (score1_p = PyNone \/ score2_p = PyNone),
                        "Match ended level after ET but no penalty scores provided")
        r2 == ErrorIf(r1, /\ score1_p # PyNone /\ score2_p # PyNone
                          /\ PyEq(score1_p, score2_p),
                      "Penalty shootout ended level")
    IN  r2

required_fields == << "team1", "team2", "score1", "score2", "date" >>

RECURSIVE MissingFields(_, _, _)
MissingFields(r, match, i) ==
    IF i > Len(required_fields) THEN r
    ELSE MissingFields(ErrorIf(r, ~HasKey(match, required_fields[i]),
                               "Missing required field: " \o required_fields[i]),
                       match, i + 1)

\* result.merge(other) under a condition
MergeIf(self, cond, other) ==
    IF self.raised THEN Raised
    ELSE IF cond THEN merge(self, other) ELSE self

\* validate_match after the required-field loop left r0.
ValidateFields(r0, match, is_knockout) ==
    IF ~r0.is_valid THEN r0
    ELSE MergeIf(
           merge(
             MergeIf(
               merge(merge(merge(r0, _validate_teams(match)),
                           _validate_scores(match, is_knockout)),
                     _validate_date(Get(match, "date", PyStr("")))),
               HasKey(match, "time") /\ Truthy(Get(match, "time", PyNone)),
               _validate_time(Get(match, "time", PyNone))),
             _validate_goals_consistency(match)),
           is_knockout \/ Truthy(Get(match, "knockout", PyBool(FALSE))),
           _validate_knockout_fields(match))

validate_match(match, is_knockout) ==
    ValidateFields(MissingFields(ValidationResult(TRUE), match, 1), match, is_knockout)

\* _is_knockout_round: any keyword of knockout_keywords occurs in the lowered
\* name.  Decided here for the round names of the model.
RoundNames == { "Matchday 1", "Quarter-finals", "Final" }
_is_knockout_round(round_name) ==
    round_name \in { "Round of 16", "Quarter-finals", "Semi-finals", "Third-place match",
                     "Final", "Final Round" }

\* A tournament-level message: its text with the values the f-string
\* interpolates (a match or index number, a round/group/team name; PyNone
\* where the text has none).
Msg(text, num, name) ==
    [ text |-> text, num |-> num, name |-> name, prefixed |-> FALSE ]
TopMsg(text) == Msg(text, PyNone, PyNone)
\* prefix + error: "Match {num} in '{round}': " followed by the match-level text.
Prefixed(num, round_name, text) ==
    [ text |-> text, num |-> num, name |-> round_name, prefixed |-> TRUE ]

RECURSIVE AddPrefixedErrors(_, _, _, _, _)
AddPrefixedErrors(r, msgs, i, num, round_name) ==
    IF i > Len(msgs) THEN r
    ELSE AddPrefixedErrors(add_error(r, Prefixed(num, round_name, msgs[i])),
                           msgs, i + 1, num, round_name)

RECURSIVE AddPrefixedWarnings(_, _, _, _, _)
AddPrefixedWarnings(r, msgs, i, num, round_name) ==
    IF i > Len(msgs) THEN r
    ELSE AddPrefixedWarnings(add_warning(r, Prefixed(num, round_name, msgs[i])),
                             msgs, i + 1, num, round_name)

\* The loop state of validate_worldcup_json: the result so far, seen_match_nums,
\* total_matches and the number of validate_match calls made.
LoopState(result, seen, total, calls) ==
    [ raised |-> FALSE, result |-> result, seen |-> seen, total |-> total,
      calls |-> calls ]
LoopRaised(calls) == [ raised |-> TRUE, calls |-> calls ]

\* The body of "for match_idx, match in enumerate(matches)" for the j-th match,
\* whose validate_match call returned match_result.
MatchStep(st, j, match_num, round_name, match_result) ==
    IF match_result.raised THEN LoopRaised(st.calls + 1)
    ELSE LoopState(
           IF ~match_result.is_valid \/ match_result.warnings # << >>
           THEN AddPrefixedWarnings(
                  AddPrefixedErrors(
                    WarningIf(st.result,
                              match_num # PyNone /\ match_num \in st.seen,
                              Msg("Duplicate match number", match_num, round_name)),
                    match_result.errors, 1,
                    IF Truthy(match_num) THEN match_num ELSE PyInt(j), round_name),
                  match_result.warnings, 1,
                  IF Truthy(match_num) THEN match_num ELSE PyInt(j), round_name)
           ELSE WarningIf(st.result,
                          match_num # PyNone /\ match_num \in st.seen,
                          Msg("Duplicate match number", match_num, round_name)),
           IF match_num # PyNone THEN st.seen \cup { match_num } ELSE st.seen,
           st.total + 1,
           st.calls + 1)

\* for match_idx, match in enumerate(matches)
RECURSIVE MatchLoop(_, _, _, _, _)
MatchLoop(st, ms, j, round_name, is_knockout) ==
    IF st.raised \/ j > Len(ms) THEN st
    ELSE IF ~IsDict(ms[j]) THEN LoopRaised(st.calls)   \* match.get: AttributeError
    ELSE MatchLoop(MatchStep(st, j, Get(ms[j], "num", PyNone), round_name,
                             validate_match(ms[j], is_knockout)),
                   ms, j + 1, round_name, is_knockout)

\* for round_idx, round_data in enumerate(rounds)
RECURSIVE RoundLoop(_, _, _)
RoundLoop(st, rounds, i) ==
    IF st.raised \/ i > Len(rounds) THEN st
    ELSE LET round_data == rounds[i]
         IN  IF ~IsDict(round_data)
             THEN RoundLoop([ st EXCEPT !.result =
                                add_error(@, Msg("Round is not a dictionary", PyInt(i - 1), PyNone)) ],
                            rounds, i + 1)
             ELSE
             LET round_name == Get(round_data, "name", PyStr("Round"))
                 ms == Get(round_data, "matches", PyList(<< >>))
             IN  IF ~Truthy(ms)
                 THEN RoundLoop([ st EXCEPT !.result =
                                    add_warning(@, Msg("Round has no matches", PyNone, round_name)) ],
                                rounds, i + 1)
                 ELSE IF ~IsStr(round_name) \/ ~IsList(ms)
                 THEN LoopRaised(st.calls)   \* round_name.lower() / match.get
                 ELSE RoundLoop(MatchLoop(st, ms.v, 1, round_name.v,
                                          _is_knockout_round(round_name.v)),
                                rounds, i + 1)

\* if total_matches == 0: result.add_warning(...)
NoMatchesWarning(st) ==
    IF st.raised THEN st
    ELSE [ st EXCEPT !.result =
             WarningIf(@, st.total = 0, TopMsg("No matches found in tournament")) ]

\* What a tournament-level call hands back: the ValidationResult, or that it raised.
Returned(st) == IF st.raised THEN Raised ELSE st.result

\* Variant of validate_worldcup_json that goes on without a 'rounds' key
\* (no error at lines 327-329); C8 does not hold of it.
validate_worldcup_json_run_NoRoundsError(data) ==
    LET r0 == ErrorIf(ValidationResult(TRUE), ~HasKey(data, "name"),
                      TopMsg("Missing 'name' field"))
    IN  IF ~HasKey(data, "rounds")
        THEN NoMatchesWarning(LoopState(r0, {}, 0, 0))
        ELSE IF ~IsList(data.d["rounds"])
        THEN LoopState(add_error(r0, TopMsg("'rounds' should be a list")), {}, 0, 0)
        ELSE NoMatchesWarning(RoundLoop(LoopState(r0, {}, 0, 0), data.d["rounds"].v, 1))

\* What validate_worldcup_json leaves: the ValidationResult (or the raise) and
\* the number of validate_match calls it made.
validate_worldcup_json_run(data) ==
    LET r0 == ErrorIf(ValidationResult(TRUE), ~HasKey(data, "name"),
                      TopMsg("Missing 'name' field"))
    IN  IF ~HasKey(data, "rounds")
        THEN LoopState(add_error(r0, TopMsg("Missing 'rounds' field")), {}, 0, 0)
        ELSE IF ~IsList(data.d["rounds"])
        THEN LoopState(add_error(r0, TopMsg("'rounds' should be a list")), {}, 0, 0)
        ELSE NoMatchesWarning(RoundLoop(LoopState(r0, {}, 0, 0), data.d["rounds"].v, 1))

validate_worldcup_json(data) == Returned(validate_worldcup_json_run(data))

\* for team in teams (validate_groups_json): the result, seen_teams and the
\* number of teams examined.
RECURSIVE TeamLoop(_, _, _, _)
TeamLoop(st, teams, j, group_name) ==
    IF j > Len(teams) THEN st
    ELSE LET team == teams[j]
         IN  IF ~IsDict(team) THEN TeamLoop(st, teams, j + 1, group_name)
             ELSE
             LET team_code == Get(team, "code", PyStr("")).v
                 team_name == Get(team, "name", PyStr("")).v
                 r1 == WarningIf(st.result, team_code \in st.seen,
                                 Msg("Team appears in multiple groups", PyNone, PyStr(team_code)))
                 r2 == ErrorIf(r1, team_name = "", Msg("Team has no name", PyNone, group_name))
                 r3 == WarningIf(r2, team_code = "" \/ CodeLen(team_code) # 3,
                                 Msg("Team has invalid code", PyNone, PyStr(team_name)))
             IN  TeamLoop(LoopState(r3, st.seen \cup { team_code }, st.total,
                                    st.calls + 1),
                          teams, j + 1, group_name)

RECURSIVE GroupLoop(_, _, _)
GroupLoop(st, groups, i) ==
    IF st.raised \/ i > Len(groups) THEN st
    ELSE LET group_data == groups[i]
         IN  IF ~IsDict(group_data)
             THEN GroupLoop([ st EXCEPT !.result =
                                add_error(@, Msg("Group is not a dictionary", PyInt(i - 1), PyNone)) ],
                            groups, i + 1)
             ELSE
             LET group_name == Get(group_data, "name", PyStr("Group"))
                 teams == Get(group_data, "teams", PyList(<< >>))
             IN  IF ~Truthy(teams)
                 THEN GroupLoop([ st EXCEPT !.result =
                                    add_warning(@, Msg("Group has no teams", PyNone, group_name)) ],
                                groups, i + 1)
                 ELSE IF ~IsList(teams)
                 THEN LoopRaised(st.calls)
                 ELSE GroupLoop(TeamLoop(st, teams.v, 1, group_name), groups, i + 1)

validate_groups_json_run(data) ==
    LET r0 == ErrorIf(ValidationResult(TRUE), ~HasKey(data, "name"),
                      TopMsg("Missing 'name' field"))
    IN  IF ~HasKey(data, "groups")
        THEN LoopState(add_error(r0, TopMsg("Missing 'groups' field")), {}, 0, 0)
        ELSE IF ~IsList(data.d["groups"])
        THEN LoopState(add_error(r0, TopMsg("'groups' should be a list")), {}, 0, 0)
        ELSE GroupLoop(LoopState(r0, {}, 0, 0), data.d["groups"].v, 1)

validate_groups_json(data) == Returned(validate_groups_json_run(data))

(***************************************************************************)
(* The inputs handed to the validator.  A record is built from a base      *)
(* record and a set of overriding fields; a field set to Absent is left    *)
(* out of the dict.                                                        *)
(***************************************************************************)
Absent == [ t |-> "absent" ]

MkDict(f) == PyDict([ k \in { k \in DOMAIN f : f[k] # Absent } |-> f[k] ])

\* base with the fields of extra written over it
With(base, extra) ==
    [ k \in DOMAIN base \cup DOMAIN extra |->
        IF k \in DOMAIN extra THEN extra[k] ELSE base[k] ]

Team(name, code) == PyDict([ name |-> PyStr(name), code |-> PyStr(code) ])

\* A goal entry as convert_goal_to_json writes it.
Goal(own) == IF own THEN PyDict([ name |-> PyStr("Scorer"), minute |-> PyInt(10),
                                  owngoal |-> PyBool(TRUE) ])
             ELSE PyDict([ name |-> PyStr("Scorer"), minute |-> PyInt(10) ])

GoalLists == UNION { [ 1..n -> { Goal(FALSE), Goal(TRUE) } ] : n \in 0..MaxGoals }

BaseMatch ==
    [ team1 |-> Team("Brazil", "BRA"), team2 |-> Team("Italy", "ITA"),
      score1 |-> PyInt(1), score2 |-> PyInt(0), date |-> PyStr("1994-07-17") ]

\* Scores of every type against goal lists of every length.
ScoreGoalRecords ==
    { MkDict(With(BaseMatch, [ score1 |-> s1, score2 |-> s2,
                               goals1 |-> PyList(g1), goals2 |-> PyList(g2) ])) :
        s1 \in { PyInt(0), PyInt(1), PyInt(-1), PyNone, PyStr("1") },
        s2 \in { PyInt(0), PyInt(1) },
        g1 \in GoalLists, g2 \in GoalLists }

\* Required fields left out, dates and times of every shape.
FieldRecords ==
    { MkDict(With(BaseMatch, [ team2 |-> t2, score2 |-> s2, date |-> d, time |-> tm ])) :
        t2 \in { Team("Italy", "ITA"), Absent },
        s2 \in { PyInt(0), Absent },
        d  \in { PyStr(s) : s \in DateStrings } \cup { PyInt(19940717), PyNone, Absent },
        tm \in { Absent, PyStr("19:00"), PyStr("25:00"), PyStr("7pm"), PyInt(19) } }

\* Teams in the nested and in the flat format, halftime scores.
TeamRecords ==
    { MkDict(With(BaseMatch, [ team1 |-> t1, team2 |-> t2,
                               score1i |-> h1, score2i |-> h2 ])) :
        t1 \in { Team("Brazil", "BRA"), Team("Brazil", "IT"), Team("", ""),
                 PyStr("Atlantis") },
        t2 \in { Team("Italy", "ITA"), Team("Brazil", "BRA"), PyStr("Atlantis") },
        h1 \in { Absent, PyInt(0), PyInt(2), PyInt(-1) },
        h2 \in { Absent, PyInt(0), PyInt(1) } }

\* Drawn matches with extra-time and shootout scores and the knockout flag.
KnockoutRecords ==
    { MkDict(With(BaseMatch, [ score1 |-> PyInt(1), score2 |-> PyInt(1),
                               score1et |-> e1, score2et |-> e2,
                               score1p |-> p1, score2p |-> p2, knockout |-> k ])) :
        e1 \in { Absent, PyInt(1), PyInt(2) }, e2 \in { Absent, PyInt(1) },
        p1 \in { Absent, PyNone, PyInt(3), PyInt(4) }, p2 \in { Absent, PyInt(3) },
        k  \in { Absent, PyBool(TRUE), PyBool(FALSE) } }

MatchRecords == ScoreGoalRecords \cup FieldRecords \cup TeamRecords \cup KnockoutRecords

\* The match entries of a tournament document.
DocMatches ==
    { MkDict(With(BaseMatch, [ num |-> n ])) : n \in { Absent, PyInt(1) } }
    \cup { MkDict(With(BaseMatch, [ num |-> PyInt(2), score2 |-> PyInt(1),
                                    score1p |-> PyInt(3), score2p |-> PyInt(3),
                                    knockout |-> k ])) : k \in { Absent, PyBool(TRUE) } }
    \cup { MkDict(With(BaseMatch, [ score1 |-> PyNone,
                                    goals1 |-> PyList(<< Goal(FALSE) >>) ])),
           PyStr("not a match") }

MaxRounds == 2

RoundEntries ==
    { PyStr("not a round") }
    \cup { MkDict([ name |-> n, matches |-> ms ]) :
             n  \in { PyStr(s) : s \in { "Matchday 1", "Final" } } \cup { Absent },
             ms \in { Absent, PyList(<< >>) } \cup { PyList(<< m >>) : m \in DocMatches } }

WorldcupDocs(max_rounds) ==
    { MkDict([ name |-> n, rounds |-> r ]) :
        n \in { PyStr("World Cup 1994"), Absent },
        r \in { Absent, PyNone, PyStr("rounds") }
              \cup { PyList(s) : s \in UNION { [ 1..k -> RoundEntries ] : k \in 0..max_rounds } } }

GroupTeams == { Team("Brazil", "BRA"), Team("Italy", "IT"), Team("", ""),
                PyStr("Brazil") }

GroupEntries ==
    { PyStr("not a group") }
    \cup { MkDict([ name |-> PyStr("Group A"), teams |-> ts ]) :
             ts \in { Absent, PyList(<< >>) }
                    \cup { PyList(<< a >>) : a \in GroupTeams }
                    \cup { PyList(<< a, b >>) : a \in GroupTeams, b \in GroupTeams } }

GroupsDocs(max_rounds) ==
    { MkDict([ name |-> n, groups |-> g ]) :
        n \in { PyStr("World Cup 1994"), Absent },
        g \in { Absent, PyNone, PyStr("groups") }
              \cup { PyList(s) : s \in UNION { [ 1..k -> GroupEntries ] : k \in 0..max_rounds } } }

\* The calls made on the validator: the function and its arguments.
ValidatorCalls(max_rounds) ==
    { [ fn |-> "validate_match", arg |-> match, is_knockout |-> k ] :
        match \in MatchRecords, k \in BOOLEAN }
    \cup { [ fn |-> "validate_worldcup_json", arg |-> data, is_knockout |-> FALSE ] :
             data \in WorldcupDocs(max_rounds) }
    \cup { [ fn |-> "validate_groups_json", arg |-> data, is_knockout |-> FALSE ] :
             data \in GroupsDocs(max_rounds) }

(***************************************************************************)
(* Actions of the validator.  The functions keep no state between calls,   *)
(* so a behaviour is one call: vin holds the call, and the action leaves   *)
(* in vres what it returned (or that it raised) and how many matches       *)
(* (teams, for a groups document) it examined.                             *)
(***************************************************************************)
\* What a run leaves in vres.
CallRecord(st) == [ out |-> Returned(st), calls |-> st.calls ]

ValidateMatch ==
    /\ vin.fn = "validate_match" /\ vres = Idle
    /\ vres' = [ out |-> validate_match(vin.arg, vin.is_knockout), calls |-> 1 ]
    /\ UNCHANGED << vin, predictVars, parseVars, scoreVars, convertVars, callVars >>

ValidateWorldcupJson ==
    /\ vin.fn = "validate_worldcup_json" /\ vres = Idle
    /\ vres' = CallRecord(validate_worldcup_json_run(vin.arg))
    /\ UNCHANGED << vin, predictVars, parseVars, scoreVars, convertVars, callVars >>

ValidateGroupsJson ==
    /\ vin.fn = "validate_groups_json" /\ vres = Idle
    /\ vres' = CallRecord(validate_groups_json_run(vin.arg))
    /\ UNCHANGED << vin, predictVars, parseVars, scoreVars, convertVars, callVars >>

InitValidate ==
    /\ IdlePredict /\ IdleParse /\ IdleScore /\ IdleConvert /\ IdleCall
    /\ vin \in ValidatorCalls(MaxRounds)
    /\ vres = Idle
NextValidate == ValidateMatch \/ ValidateWorldcupJson \/ ValidateGroupsJson
SpecValidate == InitValidate /\ [][NextValidate]_vars

(***************************************************************************)
(* Properties of the validator                                             *)
(***************************************************************************)
HasMsg(msgs, text) == \E i \in DOMAIN msgs : msgs[i] = text
HasText(msgs, text) == \E i \in DOMAIN msgs : msgs[i].text = text

Returns == vres # Idle /\ ~vres.out.raised

AllRequired(match) == \A i \in DOMAIN required_fields : HasKey(match, required_fields[i])

\* Both shootout scores are present and equal.
LevelShootout(match) ==
    /\ IsDict(match)
    /\ Get(match, "score1p", PyNone) # PyNone
    /\ Get(match, "score2p", PyNone) # PyNone
    /\ PyEq(Get(match, "score1p", PyNone), Get(match, "score2p", PyNone))

KnockoutFlag(match) == Truthy(Get(match, "knockout", PyBool(FALSE)))

\* The rounds of a document and the matches of a round, where they are lists.
RoundsOf(data) ==
    IF HasKey(data, "rounds") /\ IsList(Get(data, "rounds", PyNone))
    THEN data.d["rounds"].v ELSE << >>
MatchesOf(round) ==
    IF IsDict(round) /\ IsList(Get(round, "matches", PyNone))
    THEN round.d["matches"].v ELSE << >>
KnockoutRound(round) ==
    /\ IsStr(Get(round, "name", PyStr("Round")))
    /\ _is_knockout_round(Get(round, "name", PyStr("Round")).v)

\* Some match of the document satisfies P together with its round.
SomeMatch(data, P(_, _)) ==
    \E i \in DOMAIN RoundsOf(data) :
        \E j \in DOMAIN MatchesOf(RoundsOf(data)[i]) :
            P(RoundsOf(data)[i], MatchesOf(RoundsOf(data)[i])[j])

(***************************************************************************)
(* C2 (stated as claimed; refuted by the code).                            *)
(* validate_match and validate_worldcup_json never raise: for every input  *)
(* record, wrong-typed values included, they return a ValidationResult.    *)
(***************************************************************************)
C2_ValidatorNeverRaises ==
    (vres # Idle /\ vin.fn \in { "validate_match", "validate_worldcup_json" })
        => ~vres.out.raised

(***************************************************************************)
(* C6 (stated as claimed; refuted by the code).                            *)
(* For a match with goal data, validate_match warns of a goal-count        *)
(* mismatch exactly when a side's score differs from the non-own goals of  *)
(* its own list plus the own goals of the opponent's list, and never       *)
(* reports the mismatch as an error.                                       *)
(***************************************************************************)
HasGoalData(match) ==
    /\ AllRequired(match)
    /\ IsInt(match.d["score1"]) /\ IsInt(match.d["score2"])
    /\ IsList(Get(match, "goals1", PyNone)) /\ IsList(Get(match, "goals2", PyNone))
    /\ (Truthy(match.d["goals1"]) \/ Truthy(match.d["goals2"]))

C6_GoalCountWarning ==
    (Returns /\ vin.fn = "validate_match" /\ HasGoalData(vin.arg)) =>
        LET m == vin.arg.d
            sidesDiffer ==
                \/ m["score1"].v # SideGoals(m["goals1"].v, m["goals2"].v)
                \/ m["score2"].v # SideGoals(m["goals2"].v, m["goals1"].v)
        IN  /\ HasMsg(vres.out.warnings, "Goals count mismatch") <=> sidesDiffer
            /\ ~HasMsg(vres.out.errors, "Goals count mismatch")

(***************************************************************************)
(* C7 as first stated (refuted): every record whose two shootout scores    *)
(* are present and equal is reported invalid, in whichever round it sits   *)
(* and whatever its knockout flag.                                         *)
(***************************************************************************)
C7_Original_LevelShootoutAlwaysError ==
    Returns =>
        /\ (vin.fn = "validate_match" /\ LevelShootout(vin.arg))
               => ~vres.out.is_valid
        /\ (vin.fn = "validate_worldcup_json"
              /\ LET Level(round, match) == LevelShootout(match)
                 IN  SomeMatch(vin.arg, Level))
               => ~vres.out.is_valid

(***************************************************************************)
(* C7 (amended).  A record whose two shootout scores are present and       *)
(* equal is never reported valid when it is validated as a knockout match: *)
(* is_knockout is true (validate_worldcup_json passes it for a round whose *)
(* name holds a knockout keyword) or the record's 'knockout' flag is       *)
(* truthy.  The result returned for such a record that has its required    *)
(* fields carries the error "Penalty shootout ended level", and no record  *)
(* that is not validated as a knockout match gets that error.              *)
(***************************************************************************)
C7_LevelShootoutErrorWhenKnockout ==
    vres # Idle =>
        /\ vin.fn = "validate_match" =>
             /\ (LevelShootout(vin.arg) /\ (vin.is_knockout \/ KnockoutFlag(vin.arg)))
                    => /\ ~(Returns /\ vres.out.is_valid)
                       /\ (Returns /\ AllRequired(vin.arg))
                            => HasMsg(vres.out.errors, "Penalty shootout ended level")
             /\ (Returns /\ HasMsg(vres.out.errors, "Penalty shootout ended level"))
                    => /\ LevelShootout(vin.arg)
                       /\ vin.is_knockout \/ KnockoutFlag(vin.arg)
        /\ vin.fn = "validate_worldcup_json" =>
             LET LevelInKnockout(round, match) ==
                     /\ LevelShootout(match)
                     /\ KnockoutRound(round) \/ KnockoutFlag(match)
             IN  /\ SomeMatch(vin.arg, LevelInKnockout)
                        => ~(Returns /\ vres.out.is_valid)
                 /\ (/\ Returns
                     /\ \E i \in DOMAIN vres.out.errors :
                           /\ vres.out.errors[i].prefixed
                           /\ vres.out.errors[i].text = "Penalty shootout ended level")
                        => SomeMatch(vin.arg, LevelInKnockout)

\* A returned knockout validation of a record with a level shootout.
C7_Witness ==
    /\ Returns /\ vin.fn = "validate_match"
    /\ LevelShootout(vin.arg) /\ KnockoutFlag(vin.arg) /\ ~vin.is_knockout
    /\ HasMsg(vres.out.errors, "Penalty shootout ended level")

(***************************************************************************)
(* C8 as first stated (refuted): a document is reported valid only if its  *)
(* 'rounds' (resp. 'groups') key is present, a list and non-empty; with    *)
(* the key absent or not a list there is an error and nothing is validated.*)
(***************************************************************************)
IsDocCall == vin.fn \in { "validate_worldcup_json", "validate_groups_json" }
DocKey == IF vin.fn = "validate_worldcup_json" THEN "rounds" ELSE "groups"
KeyIsList == HasKey(vin.arg, DocKey) /\ IsList(Get(vin.arg, DocKey, PyNone))

C8_Original_ValidOnlyIfNonEmptyList ==
    (Returns /\ IsDocCall) =>
        /\ vres.out.is_valid => (KeyIsList /\ Truthy(Get(vin.arg, DocKey, PyNone)))
        /\ ~KeyIsList => (~vres.out.is_valid /\ vres.calls = 0)

(***************************************************************************)
(* C8 (amended).  A document is reported valid only if its 'rounds'        *)
(* (resp. 'groups') key is present and a list; with the key absent or not  *)
(* a list the result carries the matching error and no match or team is    *)
(* examined.  An empty list is accepted: the document is then valid        *)
(* exactly when it has a 'name', with the single warning "No matches       *)
(* found in tournament" from validate_worldcup_json and none from          *)
(* validate_groups_json.                                                   *)
(***************************************************************************)
C8_ValidOnlyIfList ==
    (vres # Idle /\ IsDocCall) =>
        /\ (Returns /\ vres.out.is_valid) => KeyIsList
        /\ ~HasKey(vin.arg, DocKey) =>
             /\ Returns /\ ~vres.out.is_valid /\ vres.calls = 0
             /\ HasText(vres.out.errors,
                        IF DocKey = "rounds" THEN "Missing 'rounds' field"
                        ELSE "Missing 'groups' field")
        /\ (HasKey(vin.arg, DocKey) /\ ~KeyIsList) =>
             /\ Returns /\ ~vres.out.is_valid /\ vres.calls = 0
             /\ HasText(vres.out.errors,
                        IF DocKey = "rounds" THEN "'rounds' should be a list"
                        ELSE "'groups' should be a list")
        /\ (KeyIsList /\ ~Truthy(Get(vin.arg, DocKey, PyNone))) =>
             /\ Returns
             /\ vres.out.is_valid <=> HasKey(vin.arg, "name")
             /\ vres.calls = 0
             /\ vres.out.warnings =
                  IF DocKey = "rounds"
                  THEN << TopMsg("No matches found in tournament") >> ELSE << >>

\* A tournament with a name and an empty round list has been reported valid.
C8_Witness ==
    /\ Returns /\ vin.fn = "validate_worldcup_json"
    /\ KeyIsList /\ ~Truthy(Get(vin.arg, "rounds", PyNone))
    /\ vres.out.is_valid

(***************************************************************************)
(* data/ingestion/text_parser.py: the line scanners parse_cup_file and     *)
(* parse_cup_finals_file.  A step scans one line; lines are told apart by  *)
(* the branch of the loop body they take.                                  *)
(***************************************************************************)
MaxParsedMatches == 2     \* match lines of one file that parse

\* Texts RE_ROUND_HEADER accepts (group 1, without a trailing "| ..." part).
RoundHeaders == { "Quarter-finals", "Third-place match", "Final", "Final Round",
                  "First round", "Matchday 1" }
GroupHeaders == { "Group A", "Group B" }

\* str.lower() on the round headers
Lower(s) == CASE s = "Quarter-finals"    -> "quarter-finals"
              [] s = "Third-place match" -> "third-place match"
              [] s = "Final"             -> "final"
              [] s = "Final Round"       -> "final round"
              [] s = "First round"       -> "first round"
              [] s = "Matchday 1"        -> "matchday 1"
              [] OTHER                   -> s

\* 'group' in s / 'matchday' in s, for lowered round headers
ContainsGroup(s)    == FALSE
ContainsMatchday(s) == s = "matchday 1"

\* parse_goals on the goals texts of the model: the scorers of each side.
GoalsTexts == { "Pele 10'; -", "-; Rossi 20'" }
parse_goals(goals_text) ==
    IF goals_text = "Pele 10'; -"
    THEN [ goals1 |-> << "Pele" >>, goals2 |-> << >> ]
    ELSE [ goals1 |-> << >>, goals2 |-> << "Rossi" >> ]

\* "Determine if knockout" (parse_match_line)
IsKnockoutRound(round) ==
    /\ round # None
    /\ Lower(round) \notin { "matchday", "group", "first round" }
    /\ ~ContainsGroup(Lower(round))

\* parse_match_line for a line that holds a number, two teams and a score
\* (the scores and the venue are left out here).
parse_match_line(match_num, group, round) ==
    [ match_num   |-> match_num,
      group       |-> IF ~IsKnockoutRound(round) THEN group ELSE None,
      round_name  |-> round,
      is_knockout |-> IsKnockoutRound(round),
      goals1      |-> << >>,
      goals2      |-> << >> ]

\* Blank lines, comments, the tournament header, group definitions and lines
\* no branch recognises; in cup_finals.txt also a "Group X" line.
ScanIgnoredLine ==
    /\ pfile # None
    /\ UNCHANGED vars

\* RE_GROUP_HEADER matches (parse_cup_file only).
ScanGroupHeader ==
    /\ pfile = "cup.txt"
    /\ \E g \in GroupHeaders : current_group' = g
    /\ current_round' = None
    /\ UNCHANGED << pmatches, last_match, prevMatchLineOk, pfile,
                    predictVars, validateVars, scoreVars, convertVars, callVars >>

\* RE_ROUND_HEADER matches.
ScanRoundHeader ==
    /\ pfile # None
    /\ \E r \in RoundHeaders :
         /\ current_round' = r
         /\ current_group' =
              IF /\ pfile = "cup.txt"
                 /\ ~ContainsGroup(Lower(r)) /\ ~ContainsMatchday(Lower(r))
              THEN None ELSE current_group
    /\ UNCHANGED << pmatches, last_match, prevMatchLineOk, pfile,
                    predictVars, validateVars, scoreVars, convertVars, callVars >>

\* A line that starts with "[": when RE_GOALS_LINE matches it (closed) and
\* last_match is set, the goals go to the object last_match refers to.
ScanGoalsLine ==
    /\ pfile # None
    /\ \E closed \in BOOLEAN, goals_text \in GoalsTexts :
         pmatches' = IF closed /\ last_match # 0
                     THEN [ pmatches EXCEPT
                              ![last_match].goals1 = parse_goals(goals_text).goals1,
                              ![last_match].goals2 = parse_goals(goals_text).goals2 ]
                     ELSE pmatches
    /\ UNCHANGED << current_group, current_round, last_match, prevMatchLineOk, pfile,
                    predictVars, validateVars, scoreVars, convertVars, callVars >>

\* A line that starts with "(" and that parse_match_line turns into a match.
ScanMatchLine ==
    /\ pfile # None
    /\ Len(pmatches) < MaxParsedMatches
    /\ LET match == parse_match_line(Len(pmatches) + 1,
                                     IF pfile = "cup.txt" THEN current_group ELSE None,
                                     current_round)
       IN  pmatches' = Append(pmatches,
                              IF pfile = "cup.txt" THEN match
                              ELSE [ match EXCEPT !.is_knockout = TRUE ])
    /\ last_match' = Len(pmatches) + 1
    /\ prevMatchLineOk' = TRUE
    /\ UNCHANGED << current_group, current_round, pfile,
                    predictVars, validateVars, scoreVars, convertVars, callVars >>

\* A line that starts with "(" for which parse_match_line returns None (no
\* number, no score or a missing team): nothing is appended, last_match stays.
ScanUnparsableMatchLine ==
    /\ pfile # None
    /\ prevMatchLineOk' = FALSE
    /\ UNCHANGED << pmatches, current_group, current_round, last_match, pfile,
                    predictVars, validateVars, scoreVars, convertVars, callVars >>

InitParse ==
    /\ IdlePredict /\ IdleValidate /\ IdleScore /\ IdleConvert /\ IdleCall
    /\ pmatches = << >> /\ current_group = None /\ current_round = None
    /\ last_match = 0 /\ prevMatchLineOk = FALSE
    /\ pfile \in { "cup.txt", "cup_finals.txt" }
NextParse ==
    \/ ScanIgnoredLine \/ ScanGroupHeader \/ ScanRoundHeader \/ ScanGoalsLine
    \/ ScanMatchLine \/ ScanUnparsableMatchLine
SpecParse == InitParse /\ [][NextParse]_vars

\* Round headers of the knockout stage.
KnockoutHeaders == { "Quarter-finals", "Third-place match", "Final" }

(***************************************************************************)
(* C3 (stated as claimed; refuted by the code).                            *)
(* In parse_cup_file a match line is marked is_knockout exactly when the   *)
(* round header that governs it is a knockout header; a match line         *)
(* governed by a group header or by a "Matchday N" header is not knockout  *)
(* and keeps the current group.                                            *)
(***************************************************************************)
C3_KnockoutIffKnockoutHeader ==
    [][ (pfile = "cup.txt" /\ Len(pmatches') = Len(pmatches) + 1) =>
          LET m == pmatches'[Len(pmatches')]
          IN  /\ m.is_knockout <=> current_round \in KnockoutHeaders
              /\ (current_round = None \/ ContainsMatchday(Lower(current_round)))
                    => (~m.is_knockout /\ m.group = current_group)
      ]_vars

(***************************************************************************)
(* C4 (stated as claimed; refuted by the code).                            *)
(* A bracketed goals line sets the goal lists of the match created by the  *)
(* immediately preceding match line and of no other match; when that       *)
(* match line produced no match (none seen yet, or it was skipped as       *)
(* unparsable) the goal lists of every parsed match stay as they are.      *)
(***************************************************************************)
GoalsOf(ms) == [ i \in DOMAIN ms |-> << ms[i].goals1, ms[i].goals2 >> ]

C4_GoalsGoToPrecedingMatch ==
    [][ (Len(pmatches') = Len(pmatches)) =>
          IF prevMatchLineOk
          THEN \A i \in 1..(Len(pmatches) - 1) : GoalsOf(pmatches')[i] = GoalsOf(pmatches)[i]
          ELSE GoalsOf(pmatches') = GoalsOf(pmatches)
      ]_vars

(***************************************************************************)
(* data/ingestion/text_parser.py: parse_score_details.                     *)
(* A score text is the sequence of its lexical pieces:                     *)
(*   "X-Y"         [ k |-> "score",  a |-> << X, Y >> ]                    *)
(*   "pen."        [ k |-> "pen" ]                                         *)
(*   "a.e.t."      [ k |-> "aet" ]                                         *)
(*   "(H-K)"       [ k |-> "paren",  a |-> << H, K >> ]                    *)
(*   "(H-K, M-N)"  [ k |-> "paren2", a |-> << H, K >>, b |-> << M, N >> ]  *)
(* and the regular expressions are applied to the pieces.  A pair that     *)
(* Python leaves None is NoPair.                                           *)
(***************************************************************************)
MaxScoreValue == 3        \* largest number written in a score text

NoPair == << >>
ScorePairs == (0..MaxScoreValue) \X (0..MaxScoreValue)
\* the second score of a two-score parenthesis
SecondParenPairs == { << 0, 0 >> }

Piece(k, a, b) == [ k |-> k, a |-> a, b |-> b ]
ScorePiece(p)  == Piece("score", p, NoPair)
PenPiece       == Piece("pen", NoPair, NoPair)
AetPiece       == Piece("aet", NoPair, NoPair)
ParenPiece(p)  == Piece("paren", p, NoPair)
Paren2Piece(p, q) == Piece("paren2", p, q)

\* zero or one piece
Opt(S) == { << >> } \cup { << x >> : x \in S }

\* The texts score_pattern of _parse_teams_and_score hands over as score_text:
\* a score, then optionally "pen.", a second score, "a.e.t." and a parenthesis.
ScoreTexts(pairs) ==
    { << ScorePiece(main) >> \o pen \o second \o aet \o paren :
        main   \in pairs,
        pen    \in Opt({ PenPiece }),
        second \in Opt({ ScorePiece(p) : p \in pairs }),
        aet    \in Opt({ AetPiece }),
        paren  \in Opt({ ParenPiece(p) : p \in pairs }
                       \cup { Paren2Piece(p, q) : p \in pairs,
                                                  q \in SecondParenPairs }) }

\* re.match(r'^(\d+)\s*-\s*(\d+)\s*pen\.?', text)
PenMatch(text) == Len(text) >= 2 /\ text[1].k = "score" /\ text[2].k = "pen"

\* 'a.e.t' in text.lower()
HasAet(text) == \E i \in DOMAIN text : text[i].k = "aet"

\* re.findall(r'(\d+)\s*-\s*(\d+)', text): every X-Y of the text, those inside
\* parentheses included, from left to right.
RECURSIVE FindAllScores(_, _)
FindAllScores(text, i) ==
    IF i > Len(text) THEN << >>
    ELSE (CASE text[i].k \in { "score", "paren" } -> << text[i].a >>
            [] text[i].k = "paren2"               -> << text[i].a, text[i].b >>
            [] OTHER                              -> << >>)
         \o FindAllScores(text, i + 1)

\* re.search(r'\((\d+)\s*-\s*(\d+)\)\s*$', text): a one-score parenthesis that
\* ends the text.
HalftimeMatch(text) ==
    IF text # << >> /\ text[Len(text)].k = "paren" THEN text[Len(text)].a ELSE NoPair

\* Variant of ScoreResult that returns the regulation score and not the
\* shootout score when there was a shootout; C10 does not hold of it.
ScoreResult_RegulationScore(pen, is_aet, scores, ht) ==
    IF scores = << >>
    THEN [ score |-> << 0, 0 >>, ht |-> NoPair, et |-> NoPair, pen |-> pen,
           is_aet |-> is_aet ]
    ELSE [ score |-> scores[1], ht |-> ht,
           et |-> IF pen # NoPair \/ is_aet THEN scores[1] ELSE NoPair,
           pen |-> pen, is_aet |-> is_aet ]

\* The result dict, filled from the shootout score, the a.e.t. flag, the
\* scores found in the rest of the text and the halftime match.  score is
\* (score1, score2), ht is (score1_ht, score2_ht) and so on.
ScoreResult(pen, is_aet, scores, ht) ==
    IF scores = << >>
    THEN [ score |-> << 0, 0 >>, ht |-> NoPair, et |-> NoPair, pen |-> pen,
           is_aet |-> is_aet ]
    ELSE IF pen # NoPair
    THEN [ score |-> pen, ht |-> ht, et |-> scores[1], pen |-> pen,
           is_aet |-> is_aet ]
    ELSE IF is_aet
    THEN [ score |-> scores[1], ht |-> ht, et |-> scores[1], pen |-> pen,
           is_aet |-> is_aet ]
    ELSE [ score |-> scores[1], ht |-> ht, et |-> NoPair, pen |-> pen,
           is_aet |-> is_aet ]

\* parse_score_details once the shootout prefix has been cut off.
ParseRest(pen, text) ==
    ScoreResult(pen, HasAet(text), FindAllScores(text, 1), HalftimeMatch(text))

parse_score_details(score_text) ==
    IF PenMatch(score_text)
    THEN ParseRest(score_text[1].a, SubSeq(score_text, 3, Len(score_text)))
    ELSE ParseRest(NoPair, score_text)

ParseScoreDetails ==
    /\ scoreIn # Idle /\ scoreOut = Idle
    /\ scoreOut' = parse_score_details(scoreIn.text)
    /\ UNCHANGED << scoreIn, predictVars, validateVars, parseVars, convertVars, callVars >>

InitScore ==
    /\ IdlePredict /\ IdleValidate /\ IdleParse /\ IdleConvert /\ IdleCall
    /\ scoreIn \in { [ text |-> s ] : s \in ScoreTexts(ScorePairs) }
    /\ scoreOut = Idle
NextScore == ParseScoreDetails
SpecScore == InitScore /\ [][NextScore]_vars

(***************************************************************************)
(* C10.  parse_score_details tells the four score shapes apart:            *)
(*   "X-Y"                       score (X,Y), no halftime, extra-time or   *)
(*                               shootout score, is_aet false;             *)
(*   "X-Y (H-K)"                 the same with halftime (H,K);             *)
(*   "X-Y a.e.t. (H-K)"          is_aet, score (X,Y), halftime (H,K);      *)
(*   "P-Q pen. E-F a.e.t. (H-K)" score (P,Q), shootout (P,Q), extra time   *)
(*                               (E,F), halftime (H,K), is_aet.            *)
(***************************************************************************)
ShapeKinds(text) == [ i \in DOMAIN text |-> text[i].k ]

MaxMatchGoals == 3        \* goals of one match, both teams together
MaxTournamentMatches == 3 \* matches of one ParsedTournament

NoOffset == -1            \* ParsedGoal.offset = None

ParsedGoal(minute, offset, is_own_goal) ==
    [ scorer |-> "Scorer", minute |-> minute, offset |-> offset,
      is_penalty |-> FALSE, is_own_goal |-> is_own_goal ]

ParsedGoals == { ParsedGoal(m, o, own) :
                   m \in { 45, 90 }, o \in { NoOffset, 2 }, own \in BOOLEAN }

\* The pairs (goals1, goals2) of one match, at most MaxMatchGoals goals in all.
GoalListPairs ==
    UNION { [ 1..n[1] -> ParsedGoals ] \X [ 1..n[2] -> ParsedGoals ] :
              n \in { c \in (0..MaxMatchGoals) \X (0..MaxMatchGoals) :
                        c[1] + c[2] <= MaxMatchGoals } }

\* A ParsedMatch; id stands for the identity of the object.
ParsedMatch(id, match_num, date_str, round_name, is_knockout, goals1, goals2) ==
    [ id |-> id, match_num |-> match_num, date_str |-> date_str,
      team1 |-> "Brazil", team2 |-> "Atlantis", score1 |-> 1, score2 |-> 0,
      goals1 |-> goals1, goals2 |-> goals2,
      group |-> IF is_knockout THEN None ELSE "Group A",
      round_name |-> round_name, is_knockout |-> is_knockout ]

\* Variant of convert_goal_to_json that credits an own goal to the team it
\* is listed under; C5 does not hold of it.
convert_goal_to_json_OwnGoalToOwnTeam(goal, is_team1_goal, current_score1, current_score2) ==
    [ name    |-> goal.scorer,
      minute  |-> goal.minute,
      offset  |-> goal.offset,
      score1  |-> IF is_team1_goal THEN current_score1 + 1 ELSE current_score1,
      score2  |-> IF is_team1_goal THEN current_score2 ELSE current_score2 + 1,
      owngoal |-> goal.is_own_goal,
      penalty |-> goal.is_penalty ]

\* The goal object: "offset" is NoOffset, "owngoal" and "penalty" FALSE where
\* the dict has no such key.
convert_goal_to_json(goal, is_team1_goal, current_score1, current_score2) ==
    [ name    |-> goal.scorer,
      minute  |-> goal.minute,
      offset  |-> goal.offset,
      score1  |-> IF goal.is_own_goal = is_team1_goal
                  THEN current_score1 ELSE current_score1 + 1,
      score2  |-> IF goal.is_own_goal = is_team1_goal
                  THEN current_score2 + 1 ELSE current_score2,
      owngoal |-> goal.is_own_goal,
      penalty |-> goal.is_penalty ]

\* key=lambda x: (x[0].minute, x[0].offset or 0), as one number: offsets stay
\* below 100.
ReplayKey(goal) == goal.minute * 100 + (IF goal.offset = NoOffset THEN 0 ELSE goal.offset)

\* all_goals: the goals of team 1, then those of team 2, sorted.
TaggedGoals(goals, is_team1) ==
    [ i \in DOMAIN goals |-> [ goal |-> goals[i], is_team1 |-> is_team1 ] ]
SortGoals(all) == StableSortByKeys(all, [ i \in DOMAIN all |-> ReplayKey(all[i].goal) ])
all_goals(match) ==
    SortGoals(TaggedGoals(match.goals1, TRUE) \o TaggedGoals(match.goals2, FALSE))

\* score1 / score2 after the goal ("Update running scores")
UpdatedScore1(goal, is_team1, score1) ==
    IF goal.is_own_goal = is_team1 THEN score1 ELSE score1 + 1
UpdatedScore2(goal, is_team1, score2) ==
    IF goal.is_own_goal = is_team1 THEN score2 + 1 ELSE score2

\* The loop "for goal, is_team1 in all_goals": the stamped goals in the order
\* in which they are replayed.
RECURSIVE Replay(_, _, _, _)
Replay(all, i, score1, score2) ==
    IF i > Len(all) THEN << >>
    ELSE << [ json     |-> convert_goal_to_json(all[i].goal, all[i].is_team1,
                                                 score1, score2),
              is_team1 |-> all[i].is_team1 ] >>
         \o Replay(all, i + 1,
                   UpdatedScore1(all[i].goal, all[i].is_team1, score1),
                   UpdatedScore2(all[i].goal, all[i].is_team1, score2))

JsonOf(stamped) == [ i \in DOMAIN stamped |-> stamped[i].json ]
OfTeam1(s) == s.is_team1
OfTeam2(s) == ~s.is_team1

\* Variant of TeamObj that leaves the name of an unresolved team empty; C11
\* does not hold of it.
TeamObj_NoRawName(info, name) ==
    IF info.found THEN [ name |-> info.name, code |-> info.code ]
    ELSE [ name |-> "", code |-> "???" ]

TeamObj(info, name) ==
    IF info.found THEN [ name |-> info.name, code |-> info.code ]
    ELSE [ name |-> name, code |-> "???" ]

\* The match object built from the match and the replayed goals.  "of" is the
\* identity of the ParsedMatch and "replay" the loop's order (each goal object
\* with the list it went to), both kept for the
\* properties; "group" is None and "knockout" FALSE where the dict has no such key.
MatchJson(match, match_num, replay) ==
    [ num    |-> IF match.match_num # 0 THEN match.match_num ELSE match_num,
      date   |-> match.date_str,
      team1  |-> TeamObj(get_team_info(match.team1), match.team1),
      team2  |-> TeamObj(get_team_info(match.team2), match.team2),
      score1 |-> match.score1,
      score2 |-> match.score2,
      goals1 |-> JsonOf(SelectSeq(replay, OfTeam1)),
      goals2 |-> JsonOf(SelectSeq(replay, OfTeam2)),
      group  |-> match.group,
      knockout |-> match.is_knockout,
      of     |-> match.id,
      replay |-> replay ]

convert_match_to_json(match, match_num) ==
    MatchJson(match, match_num, Replay(all_goals(match), 1, 0, 0))

\* The date strings of the model in the order sorted() gives them: ISO dates
\* compare as their days do, and "unknown" (a letter) comes after every digit.
DateStrs == { "", "1930-07-13", "1930-07-14" }
DateRank(d) == CASE d = "1930-07-13" -> 1
                 [] d = "1930-07-14" -> 2
                 [] OTHER            -> 3
\* match.date_str or "unknown"
DateKey(match) == IF match.date_str = "" THEN "unknown" ELSE match.date_str

\* sorted(dates.keys())
sorted_dates(ms) ==
    LET keys == { DateKey(ms[i]) : i \in DOMAIN ms }
    IN  [ i \in 1..Cardinality(keys) |->
            CHOOSE d \in keys :
                Cardinality({ e \in keys : DateRank(e) < DateRank(d) }) = i - 1 ]

\* sorted(..., key=lambda m: m.match_num or 0)
SortByNum(ms) == StableSortByKeys(ms, [ i \in DOMAIN ms |-> ms[i].match_num ])

\* The matchday rounds: convert_match_to_json(m, m.match_num or idx + 1).
MatchdayMatches(day_matches) ==
    [ idx \in DOMAIN day_matches |-> convert_match_to_json(day_matches[idx], idx) ]

MatchdayRounds(group_matches, dates) ==
    [ i \in DOMAIN dates |->
        [ name    |-> "Matchday " \o ToString(i),
          matches |-> LET OnDate(m) == DateKey(m) = dates[i]
                      IN  MatchdayMatches(SortByNum(SelectSeq(group_matches, OnDate))) ] ]

\* "x in name.lower()" for the round names of the model.
RoundNameHas(name, part) ==
    << name, part >> \in { << "Round of 16", "round of 16" >>,
                          << "Quarter-finals", "quarter" >>,
                          << "Semi-finals", "semi" >>,
                          << "Third-place match", "third" >>,
                          << "Match for third place", "third" >>,
                          << "Third place match", "third" >> }

_normalize_round_name(name) ==
    IF RoundNameHas(name, "round of 16") \/ RoundNameHas(name, "round of sixteen")
    THEN "Round of 16"
    ELSE IF RoundNameHas(name, "quarter") THEN "Quarter-finals"
    ELSE IF RoundNameHas(name, "semi") THEN "Semi-finals"
    ELSE IF RoundNameHas(name, "third") THEN "Match for third place"
    ELSE IF name = "Final" THEN "Final"
    ELSE name

\* Variant of round_order with the final first; C9 does not hold of it.
round_order_FinalFirst ==
    << "Final", "Round of 16", "Quarter-finals", "Semi-finals", "Third-place match",
       "Match for third place", "Third place match" >>

round_order ==
    << "Round of 16", "Quarter-finals", "Semi-finals", "Third-place match",
       "Match for third place", "Third place match", "Final" >>

\* _normalize_round_name(match.round_name or "Unknown")
RoundKey(match) ==
    _normalize_round_name(IF match.round_name = None THEN "Unknown"
                          ELSE match.round_name)

\* The keys of rounds_dict in insertion order.
RECURSIVE DictKeys(_, _, _)
DictKeys(ms, i, keys) ==
    IF i > Len(ms) THEN keys
    ELSE DictKeys(ms, i + 1,
                  IF \E k \in DOMAIN keys : keys[k] = RoundKey(ms[i]) THEN keys
                  ELSE Append(keys, RoundKey(ms[i])))

InSeq(x, s) == \E i \in DOMAIN s : s[i] = x

\* One knockout round: the matches of rounds_dict[key], sorted, converted with
\* idx + 1.
KnockoutRoundJson(name, key, ms) ==
    [ name    |-> name,
      matches |-> LET InRound(m) == RoundKey(m) = key
                      sorted == SortByNum(SelectSeq(ms, InRound))
                  IN  [ idx \in DOMAIN sorted |-> convert_match_to_json(sorted[idx], idx) ] ]

\* "First add rounds in defined order": the loop over round_order from its
\* i-th entry on, with seen_rounds as left by the entries before.
RECURSIVE OrderedRounds(_, _, _, _)
OrderedRounds(ms, keys, i, seen_rounds) ==
    IF i > Len(round_order) THEN << >>
    ELSE IF /\ InSeq(_normalize_round_name(round_order[i]), keys)
            /\ _normalize_round_name(round_order[i]) \notin seen_rounds
         THEN << KnockoutRoundJson(round_order[i], _normalize_round_name(round_order[i]), ms) >>
              \o OrderedRounds(ms, keys, i + 1,
                               seen_rounds \cup { _normalize_round_name(round_order[i]) })
         ELSE OrderedRounds(ms, keys, i + 1, seen_rounds)

\* seen_rounds after the first loop
SeenRounds(keys) ==
    { _normalize_round_name(round_order[i]) : i \in DOMAIN round_order }
        \cap { keys[k] : k \in DOMAIN keys }

\* "Add any remaining rounds": the keys not seen, in insertion order.
\* Variant without the second loop ("Add any remaining rounds"); C27 does not
\* hold of it.
RemainingRounds_None(ms, keys, seen_rounds) == << >>

RemainingRounds(ms, keys, seen_rounds) ==
    LET NotSeen(k) == k \notin seen_rounds
        rest == SelectSeq(keys, NotSeen)
    IN  [ i \in DOMAIN rest |-> KnockoutRoundJson(rest[i], rest[i], ms) ]

KnockoutRoundsOf(ms, keys) ==
    OrderedRounds(ms, keys, 1, {}) \o RemainingRounds(ms, keys, SeenRounds(keys))

organize_knockout_rounds(ms) == KnockoutRoundsOf(ms, DictKeys(ms, 1, << >>))

IsGroupMatch(m)    == ~m.is_knockout
IsKnockoutMatch(m) == m.is_knockout

GroupStage(group_matches) ==
    IF group_matches # << >>
    THEN MatchdayRounds(group_matches, sorted_dates(group_matches)) ELSE << >>
KnockoutStage(knockout_matches) ==
    IF knockout_matches # << >> THEN organize_knockout_rounds(knockout_matches) ELSE << >>

convert_tournament_to_json(tournament) ==
    [ name   |-> tournament.name,
      rounds |-> GroupStage(SelectSeq(tournament.matches, IsGroupMatch))
                 \o KnockoutStage(SelectSeq(tournament.matches, IsKnockoutMatch)) ]

\* The matches a ParsedTournament can hold (no goals here) and the tournaments.
TournamentRoundNames == { None, "Quarter-finals", "Final", "Third place match",
                          "Final Round" }
TournamentMatch(id) ==
    { ParsedMatch(id, num, d, None, FALSE, << >>, << >>) :
        num \in 0..2, d \in DateStrs }
    \cup { ParsedMatch(id, num, "1930-07-30", r, TRUE, << >>, << >>) :
             num \in 0..2, r \in TournamentRoundNames }

\* The i-th match of a tournament has id i.
ParsedTournaments(max_matches) ==
    { [ name |-> "World Cup 1930", matches |-> ms ] :
        ms \in UNION { { [ i \in 1..n |-> [ f[i] EXCEPT !.id = i ] ] :
                           f \in [ 1..n -> TournamentMatch(1) ] } :
                       n \in 0..max_matches } }

ConvertCalls(max_matches) ==
    { [ fn |-> "convert_match_to_json",
        arg |-> ParsedMatch(1, 1, "1930-07-13", None, FALSE, g[1], g[2]) ] :
        g \in GoalListPairs }
    \cup { [ fn |-> "convert_tournament_to_json", arg |-> tm ] : tm \in ParsedTournaments(max_matches) }

(***************************************************************************)
(* Actions of the converter: one call per behaviour, the call in convIn    *)
(* and what it returned in convOut.                                        *)
(***************************************************************************)
ConvertMatchToJson ==
    /\ convIn.fn = "convert_match_to_json" /\ convOut = Idle
    /\ convOut' = convert_match_to_json(convIn.arg, 1)
    /\ UNCHANGED << convIn, predictVars, validateVars, parseVars, scoreVars, callVars >>

ConvertTournamentToJson ==
    /\ convIn.fn = "convert_tournament_to_json" /\ convOut = Idle
    /\ convOut' = convert_tournament_to_json(convIn.arg)
    /\ UNCHANGED << convIn, predictVars, validateVars, parseVars, scoreVars, callVars >>

InitConvert ==
    /\ IdlePredict /\ IdleValidate /\ IdleParse /\ IdleScore /\ IdleCall
    /\ convIn \in ConvertCalls(MaxTournamentMatches)
    /\ convOut = Idle
NextConvert == ConvertMatchToJson \/ ConvertTournamentToJson
SpecConvert == InitConvert /\ [][NextConvert]_vars

(***************************************************************************)
(* Properties of the converter.                                            *)
(***************************************************************************)
MatchCall      == convIn.fn = "convert_match_to_json" /\ convOut # Idle
TournamentCall == convIn.fn = "convert_tournament_to_json" /\ convOut # Idle

\* (minute, offset or 0) of a goal object, compared as tuples
OffsetOr0(json) == IF json.offset = NoOffset THEN 0 ELSE json.offset
ReplayLeq(a, b) ==
    \/ a.minute < b.minute
    \/ a.minute = b.minute /\ OffsetOr0(a) <= OffsetOr0(b)

\* The tallies before the k-th goal of the replay.
Before1(replay, k) == IF k = 1 THEN 0 ELSE replay[k - 1].json.score1
Before2(replay, k) == IF k = 1 THEN 0 ELSE replay[k - 1].json.score2

\* The stamp of the k-th goal is the tally just after it: one more for the
\* team the goal counts for, the other tally as it was.
StampedAfter(replay, k) ==
    LET s == replay[k]
        for_team1 == (s.is_team1 /\ ~s.json.owngoal) \/ (~s.is_team1 /\ s.json.owngoal)
    IN  /\ s.json.score1 = Before1(replay, k) + (IF for_team1 THEN 1 ELSE 0)
        /\ s.json.score2 = Before2(replay, k) + (IF for_team1 THEN 0 ELSE 1)

OwnGoals(goals)    == Cardinality({ i \in DOMAIN goals : goals[i].is_own_goal })
NonOwnGoals(goals) == Cardinality({ i \in DOMAIN goals : ~goals[i].is_own_goal })

BracketRank(name) ==
    CASE name = "Round of 16" -> 1
      [] name = "Quarter-finals" -> 2
      [] name = "Semi-finals" -> 3
      [] name \in { "Third-place match", "Match for third place",
                    "Third place match" } -> 4
      [] name = "Final" -> 5
      [] OTHER -> 6

ParsedRoundName(m) == IF m.round_name = None THEN "Unknown" ELSE m.round_name

\* Where the knockout matches of the tournament first show the round name.
FirstEncounter(ms, name) ==
    CHOOSE i \in DOMAIN ms :
        /\ ms[i].is_knockout /\ ParsedRoundName(ms[i]) = name
        /\ \A j \in 1..(i - 1) : ~(ms[j].is_knockout /\ ParsedRoundName(ms[j]) = name)

MatchdayCount(ms) ==
    Cardinality({ DateKey(ms[i]) : i \in { j \in DOMAIN ms : ~ms[j].is_knockout } })

MaxPipelineMatches == 2   \* matches of the tournament that is converted and validated

\* The dicts convert_goal_to_json and convert_match_to_json build, as the
\* Python values the validator reads.  A ParsedMatch of the model has no
\* kick-off time, halftime, extra-time or shootout score.
PyGoalJson(json) ==
    MkDict([ name    |-> PyStr(json.name),
             minute  |-> PyInt(json.minute),
             offset  |-> IF json.offset = NoOffset THEN Absent ELSE PyInt(json.offset),
             score1  |-> PyInt(json.score1),
             score2  |-> PyInt(json.score2),
             owngoal |-> IF json.owngoal THEN PyBool(TRUE) ELSE Absent,
             penalty |-> IF json.penalty THEN PyBool(TRUE) ELSE Absent ])

PyGoalList(goals) == PyList([ i \in DOMAIN goals |-> PyGoalJson(goals[i]) ])

PyMatchJson(m) ==
    MkDict([ num      |-> PyInt(m.num),
             date     |-> PyStr(m.date),
             time     |-> PyStr("00:00"),
             team1    |-> Team(m.team1.name, m.team1.code),
             team2    |-> Team(m.team2.name, m.team2.code),
             score1   |-> PyInt(m.score1),
             score2   |-> PyInt(m.score2),
             score1i  |-> PyNone,
             score2i  |-> PyNone,
             goals1   |-> PyGoalList(m.goals1),
             goals2   |-> PyGoalList(m.goals2),
             group    |-> IF m.group = None THEN Absent ELSE PyStr(m.group),
             knockout |-> IF m.knockout THEN PyBool(TRUE) ELSE Absent,
             score1et |-> IF m.knockout THEN PyNone ELSE Absent,
             score2et |-> IF m.knockout THEN PyNone ELSE Absent,
             score1p  |-> IF m.knockout THEN PyNone ELSE Absent,
             score2p  |-> IF m.knockout THEN PyNone ELSE Absent ])

PyRoundJson(round) ==
    PyDict([ name    |-> PyStr(round.name),
             matches |-> PyList([ j \in DOMAIN round.matches |->
                                    PyMatchJson(round.matches[j]) ]) ])

PyWorldcupJson(doc) ==
    PyDict([ name   |-> PyStr(doc.name),
             rounds |-> PyList([ i \in DOMAIN doc.rounds |-> PyRoundJson(doc.rounds[i]) ]) ])

\* convert_groups_to_json, with the same fallback for a team without entry.
GroupTeamsJson(teams) ==
    PyList([ j \in DOMAIN teams |->
               Team(normalize_team_list(teams)[j].name, normalize_team_list(teams)[j].code) ])

convert_groups_to_json(tournament) ==
    PyDict([ name   |-> PyStr(tournament.name),
             groups |-> PyList([ i \in DOMAIN tournament.groups |->
                          PyDict([ name  |-> PyStr(tournament.groups[i].name),
                                   teams |-> GroupTeamsJson(tournament.groups[i].teams) ]) ]) ])

\* validation_result.merge(validate_worldcup_json(...)); .merge(validate_groups_json(...))
ValidateDocuments(worldcup, groups_json) ==
    merge(merge(ValidationResult(TRUE), validate_worldcup_json(worldcup)),
          validate_groups_json(groups_json))

YearResult(worldcup_json, groups_json) ==
    [ worldcup_json |-> worldcup_json,
      groups_json   |-> groups_json,
      validation    |-> ValidateDocuments(PyWorldcupJson(worldcup_json), groups_json) ]

\* convert_worldcup_year on the tournament parse_worldcup_year returned
convert_worldcup_year(tournament) ==
    YearResult(convert_tournament_to_json(tournament), convert_groups_to_json(tournament))

\* The tournaments handed to the pipeline: the sides of a match are teams
\* the database knows, a team it resolves by partial matching ("Belarus")
\* and a team it does not know ("Atlantis").
PipelineMatch(id) ==
    { [ ParsedMatch(id, num, d, IF k THEN "Final" ELSE None, k, << >>, << >>)
          EXCEPT !.team1 = t1, !.team2 = t2 ] :
        num \in 0..1, d \in { "", "1930-07-13" }, k \in BOOLEAN,
        t1 \in { "Brazil", "Atlantis" }, t2 \in { "Italy", "Atlantis", "Belarus" } }

PipelineGroups ==
    { << >>, << [ name |-> "Group A", teams |-> << "Brazil", "Atlantis" >> ] >> }

PipelineTournaments(max_matches) ==
    { [ name |-> "World Cup 1930", matches |-> ms, groups |-> gs ] :
        ms \in UNION { { [ i \in 1..n |-> [ f[i] EXCEPT !.id = i ] ] :
                           f \in [ 1..n -> PipelineMatch(1) ] } :
                       n \in 0..max_matches },
        gs \in PipelineGroups }

ConvertWorldcupYear ==
    /\ convIn.fn = "convert_worldcup_year" /\ convOut = Idle
    /\ convOut' = convert_worldcup_year(convIn.arg)
    /\ UNCHANGED << convIn, predictVars, validateVars, parseVars, scoreVars, callVars >>

InitPipeline ==
    /\ IdlePredict /\ IdleValidate /\ IdleParse /\ IdleScore /\ IdleCall
    /\ convIn \in { [ fn |-> "convert_worldcup_year", arg |-> tm ] :
                      tm \in PipelineTournaments(MaxPipelineMatches) }
    /\ convOut = Idle
NextPipeline == ConvertWorldcupYear
SpecPipeline == InitPipeline /\ [][NextPipeline]_vars

(***************************************************************************)
(* Properties of the pipeline.                                             *)
(***************************************************************************)
PipelineDone == convIn.fn = "convert_worldcup_year" /\ convOut # Idle

\* Where the converted matches are: << round, place in the round >>.
MatchPlaces(doc) ==
    UNION { { << i, j >> : j \in DOMAIN doc.rounds[i].matches } : i \in DOMAIN doc.rounds }

\* The validation holds a message with this text for the match at place p.
MatchMessage(msgs, doc, p, text) ==
    \E k \in DOMAIN msgs :
        /\ msgs[k].prefixed
        /\ msgs[k].text = text
        /\ msgs[k].name = doc.rounds[p[1]].name
        /\ msgs[k].num = PyInt(doc.rounds[p[1]].matches[p[2]].num)

\* The team object of a side whose raw name is raw, and how the validation
\* flags it.
SideConverted(raw, obj, validation, doc, p, not_found, empty) ==
    IF get_team_info(raw).found
    THEN obj = [ name |-> get_team_info(raw).name, code |-> get_team_info(raw).code ]
    ELSE /\ obj = [ name |-> raw, code |-> "???" ]
         /\ MatchMessage(validation.warnings, doc, p, not_found)
         /\ ~MatchMessage(validation.errors, doc, p, not_found)
         /\ ~MatchMessage(validation.errors, doc, p, empty)

IsMatchCall == vres # Idle /\ vin.fn = "validate_match"

\* The error-level defects of a record, read off the record itself.
MissingRequired(match) == ~AllRequired(match)
ScoreDefect(match) ==
    \E key \in { "score1", "score2" } : HasKey(match, key) /\ BadScore(match.d[key])
SameTeams(match) ==
    /\ HasKey(match, "team1") /\ HasKey(match, "team2")
    /\ NameOfTeam(match.d["team1"]) = NameOfTeam(match.d["team2"])
DateDefect(match) ==
    /\ HasKey(match, "date")
    /\ ~(/\ IsStr(match.d["date"])
         /\ DateFormatOk(match.d["date"].v) /\ DateIsReal(match.d["date"].v))
ErrorDefect(match) ==
    MissingRequired(match) \/ ScoreDefect(match) \/ SameTeams(match) \/ DateDefect(match)

(***************************************************************************)
(* C12 (stated as claimed; refuted by the code).                           *)
(* validate_match returns is_valid = false with at least one error         *)
(* whenever a required key (the two teams, the two scores, the date) is    *)
(* absent, a score is negative or not an integer, both team names are      *)
(* equal, or the date is not a real calendar date in YYYY-MM-DD form.      *)
(***************************************************************************)
C12_DefectGivesError ==
    (IsMatchCall /\ ErrorDefect(vin.arg))
        => (Returns /\ ~vres.out.is_valid /\ Len(vres.out.errors) >= 1)


\* A record without error-level defects: the required keys are there, the
\* scores (the halftime scores too, where given) are non-negative integers,
\* the teams have names and differ, the date is a real YYYY-MM-DD date, a
\* time is text and the goals are lists, and a record validated as a
\* knockout match has no level shootout.  Whatever else is wrong with such a
\* record is warning-level.
HalftimeDefect(match) ==
    \E key \in { "score1i", "score2i" } :
        Get(match, key, PyNone) # PyNone /\ BadScore(match.d[key])
NamelessTeam(match) ==
    \E key \in { "team1", "team2" } : HasKey(match, key) /\ NameOfTeam(match.d[key]) = ""
WellTyped(match) ==
    /\ \A key \in { "team1", "team2" } :
          HasKey(match, key) => (IsDict(match.d[key]) \/ IsStr(match.d[key]))
    /\ HasKey(match, "time") => (IsStr(match.d["time"]) \/ match.d["time"] = PyNone)
    /\ \A key \in { "goals1", "goals2" } : HasKey(match, key) => IsList(match.d[key])
WarningLevelOnly(match, as_knockout) ==
    /\ IsDict(match) /\ WellTyped(match)
    /\ ~ErrorDefect(match) /\ ~HalftimeDefect(match) /\ ~NamelessTeam(match)
    /\ ~((as_knockout \/ KnockoutFlag(match)) /\ LevelShootout(match))

\* A tournament document whose rounds hold only such records, and a groups
\* document whose teams have names.
WarningLevelOnlyDoc(data) ==
    /\ HasKey(data, "name") /\ HasKey(data, "rounds") /\ IsList(data.d["rounds"])
    /\ \A i \in DOMAIN RoundsOf(data) :
          LET round == RoundsOf(data)[i]
          IN  /\ IsDict(round)
              /\ IsStr(Get(round, "name", PyStr("Round")))
              /\ IsList(Get(round, "matches", PyList(<< >>)))
              /\ \A j \in DOMAIN MatchesOf(round) :
                    WarningLevelOnly(MatchesOf(round)[j], KnockoutRound(round))
GroupsOf(data) ==
    IF HasKey(data, "groups") /\ IsList(Get(data, "groups", PyNone))
    THEN data.d["groups"].v ELSE << >>
WarningLevelOnlyGroups(data) ==
    /\ HasKey(data, "name") /\ HasKey(data, "groups") /\ IsList(data.d["groups"])
    /\ \A i \in DOMAIN GroupsOf(data) :
          LET group == GroupsOf(data)[i]
              teams == Get(group, "teams", PyList(<< >>))
          IN  /\ IsDict(group) /\ IsList(teams)
              /\ \A j \in DOMAIN teams.v :
                    IsDict(teams.v[j]) => Get(teams.v[j], "name", PyStr("")).v # ""

WarningLevelOnlyCall ==
    CASE vin.fn = "validate_match" -> WarningLevelOnly(vin.arg, vin.is_knockout)
      [] vin.fn = "validate_worldcup_json" -> WarningLevelOnlyDoc(vin.arg)
      [] OTHER -> WarningLevelOnlyGroups(vin.arg)

(***************************************************************************)
(* C13.  Warnings never block: a record whose only defects are             *)
(* warning-level (a code that is not 3 characters, a team the resolver     *)
(* does not know, a halftime score above the final score in a non-knockout *)
(* match, a goal-count mismatch, a match level after extra time without    *)
(* penalty scores, a duplicate sequence number, an empty round or group)   *)
(* validates with is_valid = true and no error, and add_warning on the     *)
(* returned result leaves is_valid as it is.                               *)
(***************************************************************************)
C13_WarningsNeverBlock ==
    vres # Idle =>
        /\ WarningLevelOnlyCall =>
              (Returns /\ vres.out.is_valid /\ vres.out.errors = << >>)
        /\ Returns =>
              add_warning(vres.out, "Team 1 code is not 3 characters").is_valid
                  = vres.out.is_valid

\* C13 witness: an unknown team with a two-letter code is validated, and the
\* record is valid with both warnings.
C13_Witness ==
    /\ IsMatchCall /\ WarningLevelOnly(vin.arg, vin.is_knockout)
    /\ Returns /\ vres.out.is_valid
    /\ HasMsg(vres.out.warnings, "Team 1 code is not 3 characters")
    /\ HasMsg(vres.out.warnings, "Team 2 not found in database")


(***************************************************************************)
(* ValidationResult.merge on its own.  A ValidationResult is a dataclass:  *)
(* any validity goes with any lists.  The call holds three results a, b    *)
(* and c; the action merges b into a (ab), then c into that (left), and,   *)
(* on fresh copies, c into b and the outcome into a (right).               *)
(***************************************************************************)
MergeOperands(tag) ==
    { [ raised |-> FALSE, is_valid |-> v, errors |-> e, warnings |-> w ] :
        v \in BOOLEAN,
        e \in { << >>, << tag \o ": error 1" >>, << tag \o ": error 1", tag \o ": error 2" >> },
        w \in { << >>, << tag \o ": warning 1" >> } }

MergeCalls ==
    { [ fn |-> "merge", a |-> a, b |-> b, c |-> c ] :
        a \in MergeOperands("a"), b \in MergeOperands("b"), c \in MergeOperands("c") }

Merge ==
    /\ call # Idle /\ call.fn = "merge" /\ returned = Idle
    /\ returned' = [ ab    |-> merge(call.a, call.b),
                     left  |-> merge(merge(call.a, call.b), call.c),
                     right |-> merge(call.a, merge(call.b, call.c)) ]
    /\ UNCHANGED << call, predictVars, validateVars, parseVars, scoreVars, convertVars >>

InitMerge ==
    /\ IdlePredict /\ IdleValidate /\ IdleParse /\ IdleScore /\ IdleConvert
    /\ call \in MergeCalls
    /\ returned = Idle
NextMerge == Merge
SpecMerge == InitMerge /\ [][NextMerge]_vars

MergeDone == call # Idle /\ call.fn = "merge" /\ returned # Idle

(***************************************************************************)
(* C14.  ValidationResult.merge appends the other result's errors and      *)
(* warnings after the receiver's own and leaves is_valid as the            *)
(* conjunction of the two; merge is associative.                           *)
(***************************************************************************)
C14_MergeAppendsAndIsAssociative ==
    MergeDone =>
        /\ returned.ab.errors = call.a.errors \o call.b.errors
        /\ returned.ab.warnings = call.a.warnings \o call.b.warnings
        /\ returned.ab.is_valid = (call.a.is_valid /\ call.b.is_valid)
        /\ returned.left = returned.right

\* C14 witness: a valid receiver with an error of its own is merged with an
\* invalid result that has errors and a warning, and then with a third one.
C14_Witness ==
    /\ MergeDone
    /\ call.a.is_valid /\ ~call.b.is_valid /\ call.c.is_valid
    /\ Len(call.a.errors) = 1 /\ Len(call.b.errors) = 2 /\ Len(call.c.errors) = 1
    /\ Len(call.b.warnings) = 1
    /\ ~returned.left.is_valid /\ Len(returned.left.errors) = 4


(***************************************************************************)
(* The team resolver on its own: a call of get_team_info on a name, or of  *)
(* normalize_team_list on a list of names.                                 *)
(***************************************************************************)
MaxTeamList == 2

ResolverCalls ==
    { [ fn |-> "get_team_info", name |-> name ] : name \in TeamNames \cup { "" } }
    \cup { [ fn |-> "normalize_team_list", teams |-> teams ] :
             teams \in UNION { [ 1..n -> TeamNames ] : n \in 0..MaxTeamList } }

GetTeamInfo ==
    /\ call # Idle /\ call.fn = "get_team_info" /\ returned = Idle
    /\ returned' = get_team_info(call.name)
    /\ UNCHANGED << call, predictVars, validateVars, parseVars, scoreVars, convertVars >>

NormalizeTeamList ==
    /\ call # Idle /\ call.fn = "normalize_team_list" /\ returned = Idle
    /\ returned' = [ list |-> normalize_team_list(call.teams) ]
    /\ UNCHANGED << call, predictVars, validateVars, parseVars, scoreVars, convertVars >>

InitResolve ==
    /\ IdlePredict /\ IdleValidate /\ IdleParse /\ IdleScore /\ IdleConvert
    /\ call \in ResolverCalls
    /\ returned = Idle
NextResolve == GetTeamInfo \/ NormalizeTeamList
SpecResolve == InitResolve /\ [][NextResolve]_vars

\* The code a finished resolver call gave to a name: of the single name of
\* get_team_info, or of the i-th name of the list.
InfoDone == call # Idle /\ call.fn = "get_team_info" /\ returned # Idle
ListDone == call # Idle /\ call.fn = "normalize_team_list" /\ returned # Idle

\* Countries that succeeded one another; their names must keep their codes apart.
SuccessionFamilies ==
    { { "Czechoslovakia", "Czech Republic", "Slovakia" },
      { "Soviet Union", "Russia" },
      { "Yugoslavia", "Serbia and Montenegro", "Serbia" } }

ExpectedCode(name) ==
    CASE name \in { "Zaire", "DR Congo" } -> "COD"
      [] name \in { "West Germany", "Germany" } -> "GER"
      [] name = "East Germany" -> "GDR"
      [] OTHER -> ""

(***************************************************************************)
(* C15.  The resolver maps Zaire and DR Congo to COD, West Germany and     *)
(* Germany to GER, and East Germany to GDR; Yugoslavia and Serbia get      *)
(* different codes, and within each succession family (Czechoslovakia /    *)
(* Czech Republic / Slovakia, Soviet Union / Russia, Yugoslavia / Serbia   *)
(* and Montenegro / Serbia) the codes are pairwise distinct.               *)
(***************************************************************************)
C15_HistoricalNamesKeepTheirCodes ==
    /\ (InfoDone /\ ExpectedCode(call.name) # "")
          => (returned.found /\ returned.code = ExpectedCode(call.name))
    /\ ListDone =>
          \A i \in DOMAIN call.teams :
              /\ ExpectedCode(call.teams[i]) # ""
                    => returned.list[i].code = ExpectedCode(call.teams[i])
              /\ \A j \in DOMAIN call.teams :
                    (/\ call.teams[i] # call.teams[j]
                     /\ \E family \in SuccessionFamilies :
                            { call.teams[i], call.teams[j] } \subseteq family)
                        => /\ returned.list[i].code # "???" /\ returned.list[j].code # "???"
                           /\ returned.list[i].code # returned.list[j].code

\* C15 witness: Yugoslavia and Serbia are resolved in one list, to YUG and SRB.
C15_Witness ==
    /\ ListDone
    /\ call.teams = << "Yugoslavia", "Serbia" >>
    /\ returned.list[1].code = "YUG" /\ returned.list[2].code = "SRB"


(***************************************************************************)
(* The Statistics Engine on its own: one call of a statistics function on  *)
(* a match list as startup builds it (the matches of the first year, then  *)
(* those of the second, each made by flatten_and_transform_matches).  The  *)
(* team asked about plays in the list or is a team of no match.            *)
(***************************************************************************)
MaxStatsMatches == 3

StatsScoreLines == { << 3, 1 >>, << 2, 0 >>, << 1, 1 >> }
StatsMatchInfos ==
    { [ team1 |-> p[1], team2 |-> p[2], score1 |-> l[1], score2 |-> l[2] ] :
        p \in { q \in TeamCodes \X TeamCodes : q[1] # q[2] }, l \in StatsScoreLines }
\* The last match of the list, or none, is of the second year.
StatsMatchLists(max_matches) ==
    { flatten_and_transform_matches(SubSeq(p[1], 1, Len(p[1]) - p[2]),
                                    YEARS[1], "World Cup")
        \o flatten_and_transform_matches(SubSeq(p[1], Len(p[1]) - p[2] + 1, Len(p[1])),
                                         YEARS[2], "World Cup") :
        p \in { q \in (UNION { [ 1..n -> StatsMatchInfos ] : n \in 0..max_matches })
                          \X { 0, 1 } : q[2] <= Len(q[1]) } }

StatsFunctions ==
    { "calculate_head_to_head", "calculate_graph_stats", "calculate_streak_stats",
      "calculate_momentum", "calculate_goal_stats", "calculate_home_away_stats",
      "calculate_goal_percentage_stats", "calculate_team_stats" }

\* A team of no match of the lists.
NoMatchTeam == "ARG"

StatsCalls(max_matches) ==
    { [ fn |-> fn, team |-> team, other |-> "ITA", ms |-> ms ] :
        fn \in StatsFunctions, team \in { "BRA", NoMatchTeam },
        ms \in StatsMatchLists(max_matches) }

CalculateHeadToHead ==
    /\ call # Idle /\ call.fn = "calculate_head_to_head" /\ returned = Idle
    /\ returned' = calculate_head_to_head(call.team, call.other, call.ms)
    /\ UNCHANGED << call, predictVars, validateVars, parseVars, scoreVars, convertVars >>

CalculateGraphStats ==
    /\ call # Idle /\ call.fn = "calculate_graph_stats" /\ returned = Idle
    /\ returned' = calculate_graph_stats(call.team, call.ms)
    /\ UNCHANGED << call, predictVars, validateVars, parseVars, scoreVars, convertVars >>

CalculateStreakStats ==
    /\ call # Idle /\ call.fn = "calculate_streak_stats" /\ returned = Idle
    /\ returned' = calculate_streak_stats(call.team, call.ms)
    /\ UNCHANGED << call, predictVars, validateVars, parseVars, scoreVars, convertVars >>

CalculateMomentum ==
    /\ call # Idle /\ call.fn = "calculate_momentum" /\ returned = Idle
    /\ returned' = calculate_momentum(call.team, call.ms, DefaultSpan)
    /\ UNCHANGED << call, predictVars, validateVars, parseVars, scoreVars, convertVars >>

CalculateGoalStats ==
    /\ call # Idle /\ call.fn = "calculate_goal_stats" /\ returned = Idle
    /\ returned' = calculate_goal_stats(call.team, call.ms)
    /\ UNCHANGED << call, predictVars, validateVars, parseVars, scoreVars, convertVars >>

CalculateHomeAwayStats ==
    /\ call # Idle /\ call.fn = "calculate_home_away_stats" /\ returned = Idle
    /\ returned' = calculate_home_away_stats(call.team, call.ms)
    /\ UNCHANGED << call, predictVars, validateVars, parseVars, scoreVars, convertVars >>

CalculateGoalPercentageStats ==
    /\ call # Idle /\ call.fn = "calculate_goal_percentage_stats" /\ returned = Idle
    /\ returned' = calculate_goal_percentage_stats(call.team, call.ms)
    /\ UNCHANGED << call, predictVars, validateVars, parseVars, scoreVars, convertVars >>

CalculateTeamStats ==
    /\ call # Idle /\ call.fn = "calculate_team_stats" /\ returned = Idle
    /\ returned' = calculate_team_stats(call.ms, call.team)
    /\ UNCHANGED << call, predictVars, validateVars, parseVars, scoreVars, convertVars >>

InitStats ==
    /\ IdlePredict /\ IdleValidate /\ IdleParse /\ IdleScore /\ IdleConvert
    /\ call \in StatsCalls(MaxStatsMatches)
    /\ returned = Idle
NextStats ==
    \/ CalculateHeadToHead \/ CalculateGraphStats \/ CalculateStreakStats
    \/ CalculateMomentum \/ CalculateGoalStats \/ CalculateHomeAwayStats
    \/ CalculateGoalPercentageStats \/ CalculateTeamStats
SpecStats == InitStats /\ [][NextStats]_vars

(***************************************************************************)
(* Properties of the Statistics Engine                                     *)
(***************************************************************************)
StatsDone(fn) == call # Idle /\ call.fn = fn /\ returned # Idle
StatsReturns(fn) == StatsDone(fn) /\ ~returned.raised

\* winner beat loser in some match of the list, by team code.
Beat(winner, loser, ms) ==
    \E i \in DOMAIN ms :
        \/ /\ ms[i].team_a_code = winner /\ ms[i].team_b_code = loser
           /\ ms[i].score_a > ms[i].score_b
        \/ /\ ms[i].team_b_code = winner /\ ms[i].team_a_code = loser
           /\ ms[i].score_b > ms[i].score_a

CodesOf(ms) == { ms[i].team_a_code : i \in DOMAIN ms } \cup { ms[i].team_b_code : i \in DOMAIN ms }

\* The pairs (X, Y): team beat X, X beat Y, and Y is not team.
IndirectPairs(team, ms) ==
    { p \in CodesOf(ms) \X CodesOf(ms) :
        Beat(team, p[1], ms) /\ Beat(p[1], p[2], ms) /\ p[2] # team }

(***************************************************************************)
(* C17.  calculate_graph_stats(team, matches) returns exactly the pairs    *)
(* (X, Y) such that team beat X in some match, X beat Y in some match and  *)
(* Y is not team, each pair once however many matches support it, and      *)
(* total_indirect_wins is the number of pairs.                             *)
(***************************************************************************)
C17_IndirectWinsAreTheSecondOrderPairs ==
    StatsDone("calculate_graph_stats") =>
        /\ ~returned.raised
        /\ { << returned.indirect_wins[i].intermediate_code,
                returned.indirect_wins[i].indirect_victim_code >> :
               i \in DOMAIN returned.indirect_wins } = IndirectPairs(call.team, call.ms)
        /\ Len(returned.indirect_wins) = Cardinality(IndirectPairs(call.team, call.ms))
        /\ returned.total_indirect_wins = Cardinality(IndirectPairs(call.team, call.ms))

\* C17 witness: Brazil beat Italy twice and Italy beat Germany; the one
\* relation is Brazil -> Italy -> Germany.
C17_Witness ==
    /\ StatsReturns("calculate_graph_stats")
    /\ call.team = "BRA"
    /\ Cardinality({ i \in DOMAIN call.ms :
                       /\ { call.ms[i].team_a_code, call.ms[i].team_b_code } = { "BRA", "ITA" }
                       /\ GoalsFor(call.ms[i], "BRA") > GoalsFor(call.ms[i], "ITA") }) = 2
    /\ Beat("ITA", "GER", call.ms)
    /\ returned.total_indirect_wins = 1
    /\ returned.indirect_wins[1].intermediate_code = "ITA"
    /\ returned.indirect_wins[1].indirect_victim_code = "GER"


\* The matches of the list in which a and b meet, in either slot.
Meetings(a, b, ms) ==
    { i \in DOMAIN ms : { ms[i].team_a_code, ms[i].team_b_code } = { a, b } }
GoalsIn(team, ms, I) ==
    LET RECURSIVE Acc(_)
        Acc(i) == IF i = 0 THEN 0
                  ELSE Acc(i - 1) + (IF i \in I THEN GoalsFor(ms[i], team) ELSE 0)
    IN  Acc(Len(ms))
WonIn(team, other, ms, I) ==
    Cardinality({ i \in I : GoalsFor(ms[i], team) > GoalsFor(ms[i], other) })

\* Brazil beat Italy 3-1 and later Italy, in the first slot, beat Brazil 2-0.
ExampleMeetings ==
    /\ Len(call.ms) = 2
    /\ call.ms[1].team_a_code = "BRA" /\ call.ms[1].team_b_code = "ITA"
    /\ call.ms[1].score_a = 3 /\ call.ms[1].score_b = 1
    /\ call.ms[2].team_a_code = "ITA" /\ call.ms[2].team_b_code = "BRA"
    /\ call.ms[2].score_a = 2 /\ call.ms[2].score_b = 0

(***************************************************************************)
(* C16 (stated as claimed; refuted by the code).                           *)
(* calculate_head_to_head(a, b, matches) counts exactly the matches in     *)
(* which a and b meet in either slot and attributes goals and results by   *)
(* team code: wins_a + wins_b + draws = total_matches, goals_a and goals_b *)
(* are the goals of a and of b, recent_matches is sorted by year           *)
(* descending; for a beating b 3-1 and later b beating a 2-0 the result is *)
(* wins 1 and 1, no draw, goals 3 and 3.                                   *)
(***************************************************************************)
C16_HeadToHeadByTeamCode ==
    StatsDone("calculate_head_to_head") =>
        LET a == call.team
            b == call.other
            I == Meetings(a, b, call.ms)
        IN  /\ ~returned.raised
            /\ returned.total_matches = Cardinality(I)
            /\ returned.wins_a = WonIn(a, b, call.ms, I)
            /\ returned.wins_b = WonIn(b, a, call.ms, I)
            /\ returned.wins_a + returned.wins_b + returned.draws = returned.total_matches
            /\ returned.goals_a = GoalsIn(a, call.ms, I)
            /\ returned.goals_b = GoalsIn(b, call.ms, I)
            /\ Len(returned.recent_matches) = Cardinality(I)
            /\ \A i \in DOMAIN returned.recent_matches :
                  \A j \in DOMAIN returned.recent_matches :
                      i < j => returned.recent_matches[i].year
                                   >= returned.recent_matches[j].year
            /\ (a = "BRA" /\ ExampleMeetings) =>
                  /\ returned.wins_a = 1 /\ returned.wins_b = 1 /\ returned.draws = 0
                  /\ returned.goals_a = 3 /\ returned.goals_b = 3

(***************************************************************************)
(* C18 (stated as claimed; refuted by the code).                           *)
(* In calculate_streak_stats, for each previous outcome prev in {W, D, L}  *)
(* the three transition counts add up to sample_size, so the three         *)
(* returned probabilities sum to 1.0 within rounding when sample_size > 0, *)
(* and all three are 0 when sample_size = 0.  (Probabilities are in        *)
(* hundredths; three roundings move the sum by at most one hundredth.)     *)
(***************************************************************************)
C18_TransitionProbabilitiesSumToOne ==
    StatsDone("calculate_streak_stats") =>
        /\ ~returned.raised
        /\ \A prev \in { "W", "D", "L" } :
              LET t == returned.transitions[prev]
              IN  /\ t.sample_size > 0 => (t.W + t.D + t.L) \in 99..101
                  /\ t.sample_size = 0 => (t.W = 0 /\ t.D = 0 /\ t.L = 0)

\* The zero/default-filled result of each statistics function.
ZeroCondition ==
    [ matches_played |-> 0, wins |-> 0, draws |-> 0, losses |-> 0, goals_for |-> 0,
      goals_against |-> 0, win_percentage |-> 0, avg_goals_for |-> 0,
      avg_goals_against |-> 0 ]
ZeroTransition == [ W |-> 0, D |-> 0, L |-> 0, sample_size |-> 0 ]
ZeroFilled(fn, r) ==
    CASE fn = "calculate_head_to_head" ->
            /\ r.total_matches = 0 /\ r.wins_a = 0 /\ r.wins_b = 0 /\ r.draws = 0
            /\ r.goals_a = 0 /\ r.goals_b = 0 /\ r.recent_matches = << >>
      [] fn = "calculate_graph_stats" ->
            r.indirect_wins = << >> /\ r.total_indirect_wins = 0
      [] fn = "calculate_streak_stats" ->
            /\ r.current_streak = [ type |-> None, count |-> 0 ]
            /\ r.longest_streaks = [ W |-> 0, D |-> 0, L |-> 0, Unbeaten |-> 0 ]
            /\ \A prev \in { "W", "D", "L" } : r.transitions[prev] = ZeroTransition
            /\ r.total_matches = 0
      [] fn = "calculate_momentum" ->
            r.current_momentum = 0 /\ r.history = << >>
      [] fn = "calculate_goal_stats" ->
            /\ r.global = [ goals_for |-> 0, goals_against |-> 0, matches_played |-> 0,
                            avg_goals_for |-> 0, avg_goals_against |-> 0,
                            goal_difference |-> 0 ]
            /\ DOMAIN r.by_competition = {}
      [] fn = "calculate_home_away_stats" ->
            r.home = ZeroCondition /\ r.away = ZeroCondition
      [] fn = "calculate_goal_percentage_stats" ->
            r.goals_per_match = 0 /\ r.total_goals = 0 /\ r.matches_played = 0
      [] OTHER ->
            /\ r.wins = 0 /\ r.losses = 0 /\ r.draws = 0 /\ r.total_matches = 0
            /\ r.win_percentage[1] = 0 /\ r.loss_percentage[1] = 0
            /\ r.draw_percentage[1] = 0 /\ r.goals_for = 0 /\ r.goals_against = 0

(***************************************************************************)
(* C19 (stated as claimed; refuted by the code).                           *)
(* For a team code that appears in no match of the list (the empty list    *)
(* included), every Statistics Engine function (goal stats, home/away,     *)
(* head-to-head, streaks, momentum, graph, goal percentage, team stats)    *)
(* returns its zero/default-filled result and does not raise.              *)
(***************************************************************************)
C19_NoMatchTeamGetsDefaults ==
    (call # Idle /\ returned # Idle /\ call.fn \in StatsFunctions /\ call.team = NoMatchTeam)
        => (~returned.raised /\ ZeroFilled(call.fn, returned))

(***************************************************************************)
(* C20 (stated as claimed; refuted by the code).                           *)
(* For any team and match list, calculate_momentum seeds the EMA with the  *)
(* points of the team's first match and every EMA value, current_momentum  *)
(* included, lies in [0, 3]; for a team with a single match that it won,   *)
(* current_momentum is 3.0; history holds at most the 10 most recent       *)
(* (match, EMA) pairs and current_momentum is the EMA of the last one.     *)
(* (EMA values are in hundredths.)                                         *)
(***************************************************************************)
C20_MomentumSeededAndBounded ==
    StatsDone("calculate_momentum") =>
        LET played == TeamMatches(call.team, call.ms)
        IN  /\ ~returned.raised
            /\ returned.current_momentum \in 0..300
            /\ \A i \in DOMAIN returned.history :
                  returned.history[i].momentum_score \in 0..300
            /\ (Len(played) \in 1..10) =>
                  returned.history[1].momentum_score = 100 * returned.history[1].points
            /\ (Len(played) = 1 /\ Outcome(played[1], call.team) = "W") =>
                  returned.current_momentum = 300
            /\ Len(returned.history) = Min2(10, Len(played))
            /\ returned.history # << >> =>
                  returned.current_momentum
                      = returned.history[Len(returned.history)].momentum_score

\* The outcomes of the team's matches in the order of the list, which is
\* chronological: the lists hold the first year's matches before the second's.
OutcomesOf(team, ms) ==
    [ i \in DOMAIN TeamMatches(team, ms) |-> Outcome(TeamMatches(team, ms)[i], team) ]

\* results[i..j] is a run of outcomes of the set keys.
IsRun(results, keys, i, j) == \A k \in i..j : results[k] \in keys

\* The length of the longest run of outcomes of keys, 0 when there is none.
LongestRun(results, keys) ==
    LET n == Len(results)
        lengths == { p[2] - p[1] + 1 : p \in { q \in (1..n) \X (1..n) :
                                     q[1] <= q[2] /\ IsRun(results, keys, q[1], q[2]) } }
    IN  IF lengths = {} THEN 0 ELSE CHOOSE l \in lengths : \A m \in lengths : m <= l

\* The length of the maximal run of the last outcome that ends at the last match.
RunAtEnd(results) ==
    LET n == Len(results)
        starts == { i \in 1..n : IsRun(results, { results[n] }, i, n) }
    IN  n - (CHOOSE i \in starts : \A k \in starts : i <= k) + 1

(***************************************************************************)
(* C24 (stated as claimed; refuted by the code).                           *)
(* calculate_streak_stats orders the team's matches chronologically and    *)
(* reports current_streak as the outcome of the most recent match with     *)
(* count equal to the length of the maximal run of that outcome ending at  *)
(* that match, and longest_streaks[W], [D], [L], [Unbeaten] as the length  *)
(* of the longest consecutive run of that outcome (Unbeaten = W or D)      *)
(* anywhere in the sequence, including a run that ends at the last match.  *)
(***************************************************************************)
C24_StreaksAreMaximalRuns ==
    StatsDone("calculate_streak_stats") =>
        LET results == OutcomesOf(call.team, call.ms)
        IN  /\ ~returned.raised
            /\ results # << >> =>
                  /\ returned.current_streak.type = results[Len(results)]
                  /\ returned.current_streak.count = RunAtEnd(results)
            /\ returned.longest_streaks.W = LongestRun(results, { "W" })
            /\ returned.longest_streaks.D = LongestRun(results, { "D" })
            /\ returned.longest_streaks.L = LongestRun(results, { "L" })
            /\ returned.longest_streaks.Unbeaten = LongestRun(results, { "W", "D" })

\* The sum of a field over the entries of by_competition.
RECURSIVE SumEntries(_, _, _)
SumEntries(by_competition, keys, field) ==
    IF keys = {} THEN 0
    ELSE LET k == CHOOSE x \in keys : TRUE
         IN  by_competition[k][field] + SumEntries(by_competition, keys \ { k }, field)

(***************************************************************************)
(* C25 (stated as claimed; refuted by the code).                           *)
(* For a team that has matches in the flat list built by                   *)
(* flatten_and_transform_matches, calculate_goal_stats groups them by the  *)
(* key "{competition} {year}" carried by each match: by_competition has    *)
(* one entry per distinct key, the global goals_for, goals_against and     *)
(* matches_played equal the sums over those entries, and goal_difference = *)
(* goals_for - goals_against at both levels.                               *)
(***************************************************************************)
C25_GoalStatsGroupedByCompetitionAndYear ==
    (StatsDone("calculate_goal_stats") /\ TeamMatches(call.team, call.ms) # << >>) =>
        /\ ~returned.raised
        /\ LET played == TeamMatches(call.team, call.ms)
               by == returned.by_competition
               g == returned.global
           IN  /\ DOMAIN by = { << played[i].competition, played[i].year >> :
                                  i \in DOMAIN played }
               /\ g.goals_for = SumEntries(by, DOMAIN by, "goals_for")
               /\ g.goals_against = SumEntries(by, DOMAIN by, "goals_against")
               /\ g.matches_played = SumEntries(by, DOMAIN by, "matches_played")
               /\ g.matches_played = Len(played)
               /\ g.goal_difference = g.goals_for - g.goals_against
               /\ \A k \in DOMAIN by :
                    by[k].goal_difference = by[k].goals_for - by[k].goals_against

(***************************************************************************)
(* The API process: main.py and api/routers/predict.py                     *)
(*                                                                         *)
(* main.py builds all_matches in its module body and, at line 52, makes    *)
(* predict.MATCHES_STORE refer to that same list object; until then        *)
(* MATCHES_STORE is the empty placeholder of predict.py line 14.  The      *)
(* handlers of predict.py are module-level functions that can be called as *)
(* soon as the router module is imported; the handlers of main.py are      *)
(* defined after the startup block.  TEAMS_DATA is left out.               *)
(***************************************************************************)
MATCHES_STORE == IF main_pc = "serving" THEN matches ELSE << >>

NotLoaded_Never(store) == FALSE

\* "if not MATCHES_STORE": an empty list is falsy.
NotLoaded(store) == store = << >>

filter_matches_by_team(ms, team_code) ==
    [ raised |-> FALSE, list |-> TeamMatches(team_code, ms) ]

calculate_effectiveness_stats(team_code, ms) ==
    [ raised |-> FALSE, available |-> FALSE ]

calculate_possession_stats(team_code, ms) ==
    [ raised |-> FALSE, available |-> FALSE ]

\* raise HTTPException(status_code=503, detail="Data not loaded yet")
DataNotLoaded == [ status |-> 503, detail |-> "Data not loaded yet", body |-> None ]

\* What FastAPI answers for the value (or the exception) of a handler.
Answer(result) ==
    IF result.raised THEN [ status |-> 500, detail |-> "Internal Server Error", body |-> None ]
    ELSE [ status |-> 200, detail |-> None, body |-> result ]

\* The team codes the endpoints are called with.
QueryTeam  == "BRA"
QueryOther == "ITA"

MatchesAfter_FilterInPlace(endpoint, team_code, ms) == TeamMatches(team_code, ms)

\* The shared list after a handler has run.  Every statistics function only
\* iterates its "matches" argument; what it appends to or sorts is a list it
\* created itself (history.py lines 16, 36, 57; streaks.py lines 17-22;
\* momentum.py lines 19-24; match_cleaner.py lines 51-54).
MatchesAfter(endpoint, team_code, ms) == ms

\* A handler of predict.py: the guard, then the statistics call.
Handle(endpoint, result) ==
    /\ response' = [ endpoint |-> endpoint, was_serving |-> main_pc = "serving",
                     answer |-> IF NotLoaded(MATCHES_STORE) THEN DataNotLoaded
                                ELSE Answer(result) ]
    /\ matches' = IF NotLoaded(MATCHES_STORE) THEN matches
                  ELSE MatchesAfter(endpoint, QueryTeam, matches)
    /\ UNCHANGED << yearsLoaded, pred, main_pc, validateVars, parseVars, scoreVars,
                    convertVars, callVars >>

\* A handler of main.py: it exists once the module body has run, and reads
\* MATCHES_DATA without a guard.
HandleMain(endpoint, result) ==
    /\ main_pc = "serving"
    /\ response' = [ endpoint |-> endpoint, was_serving |-> TRUE,
                     answer |-> Answer(result) ]
    /\ matches' = MatchesAfter(endpoint, QueryTeam, matches)
    /\ UNCHANGED << yearsLoaded, pred, main_pc, validateVars, parseVars, scoreVars,
                    convertVars, callVars >>

\* main.py lines 47-52 once "for year in YEARS" has ended: YEARS had as many
\* entries as the loop processed, none when no directory holds a worldcup.json.
FinishStartup ==
    /\ main_pc = "loading"
    /\ main_pc' = "serving"
    /\ UNCHANGED << matches, yearsLoaded, pred, response, validateVars, parseVars,
                    scoreVars, convertVars, callVars >>

\* main.py lines 54-57: reading or validating a file of the next year raises
\* and the module body ends with RuntimeError.
FailStartup ==
    /\ main_pc = "loading"
    /\ yearsLoaded < MaxYears
    /\ main_pc' = "failed"
    /\ UNCHANGED << matches, yearsLoaded, pred, response, validateVars, parseVars,
                    scoreVars, convertVars, callVars >>

get_history ==
    Handle("get_history", calculate_head_to_head(QueryTeam, QueryOther, matches))
get_goal_stats ==
    Handle("get_goal_stats", calculate_goal_stats(QueryTeam, matches))
get_streak_stats ==
    Handle("get_streak_stats", calculate_streak_stats(QueryTeam, matches))
get_home_away_stats ==
    Handle("get_home_away_stats", calculate_home_away_stats(QueryTeam, matches))
get_momentum_stats ==
    Handle("get_momentum_stats", calculate_momentum(QueryTeam, matches, DefaultSpan))
get_graph_stats ==
    Handle("get_graph_stats", calculate_graph_stats(QueryTeam, matches))
get_goal_percentage_stats ==
    Handle("get_goal_percentage_stats", calculate_goal_percentage_stats(QueryTeam, matches))
get_effectiveness_stats ==
    Handle("get_effectiveness_stats", calculate_effectiveness_stats(QueryTeam, matches))
get_possession_stats ==
    Handle("get_possession_stats", calculate_possession_stats(QueryTeam, matches))
get_match_prediction ==
    Handle("get_match_prediction", predict_match(QueryTeam, QueryOther, matches))
obtener_analisis ==
    HandleMain("obtener_analisis", [ raised |-> FALSE, list |-> matches ])
obtener_partidos_por_equipo ==
    HandleMain("obtener_partidos_por_equipo", filter_matches_by_team(matches, QueryTeam))
obtener_estadisticas_por_equipo ==
    HandleMain("obtener_estadisticas_por_equipo", calculate_team_stats(matches, QueryTeam))

InitServer ==
    IdlePredict /\ IdleValidate /\ IdleParse /\ IdleScore /\ IdleConvert /\ IdleCall
NextServer ==
    \/ LoadYear \/ FinishStartup \/ FailStartup
    \/ get_history \/ get_goal_stats \/ get_streak_stats \/ get_home_away_stats
    \/ get_momentum_stats \/ get_graph_stats \/ get_goal_percentage_stats
    \/ get_effectiveness_stats \/ get_possession_stats \/ get_match_prediction
    \/ obtener_analisis \/ obtener_partidos_por_equipo
    \/ obtener_estadisticas_por_equipo
SpecServer == InitServer /\ [][NextServer]_vars

\* The handlers of predict.py.
PredictEndpoints ==
    { "get_history", "get_goal_stats", "get_streak_stats", "get_home_away_stats",
      "get_momentum_stats", "get_graph_stats", "get_goal_percentage_stats",
      "get_effectiveness_stats", "get_possession_stats", "get_match_prediction" }

(***************************************************************************)
(* C21.  Every statistics and prediction endpoint called while the shared  *)
(* match store has not yet been populated answers with the "data not       *)
(* loaded" failure and computes no result.                                 *)
(***************************************************************************)
C21_NotLoadedBeforeStartupEnds ==
    (response # Idle /\ ~response.was_serving) =>
        /\ response.answer.status = 503
        /\ response.answer.detail = "Data not loaded yet"
        /\ response.answer.body = None

\* A handler was called while the startup loop had already collected matches
\* but had not yet published them.
C21_Witness ==
    /\ response # Idle /\ ~response.was_serving
    /\ response.endpoint = "get_match_prediction"
    /\ main_pc = "loading" /\ matches # << >>
    /\ response.answer.status = 503

(***************************************************************************)
(* The batch conversion: worldcup_converter.py convert_all_years,          *)
(* convert_and_save_year; text_parser.py parse_worldcup_year.              *)
(*                                                                         *)
(* The call is in convIn; convOut holds the locals of convert_all_years    *)
(* while its loop runs, and the files written.  The datasets directory     *)
(* gives, for each year, the tournament parse_worldcup_year reads, or      *)
(* NoCupFile when the year has no cup.txt.                                 *)
(***************************************************************************)
MaxBatchYears == 3        \* most entries of the "years" argument

BatchYears == { 1930, 1934, 2014 }
existing_years == { 2014, 2018 }
NoCupFile == [ missing |-> "cup.txt" ]

\* A tournament without matches (its worldcup.json has an error), one that
\* validates, and one with a team the database does not know (a warning).
BatchTournaments ==
    { [ name |-> "World Cup 1930", matches |-> ms, groups |-> << >> ] :
        ms \in { << >> }
           \cup { << [ ParsedMatch(1, 1, "1930-07-13", None, FALSE, << >>, << >>)
                         EXCEPT !.team2 = t2 ] >> : t2 \in { "Italy", "Atlantis" } } }

BatchYearLists == UNION { [ 1..n -> BatchYears ] : n \in 0..MaxBatchYears }

\* f"Conversion failed: {str(e)}": the fixed part and the text of the exception.
ConversionFailed(e) ==
    [ text |-> "Conversion failed: ", num |-> PyNone, name |-> e, prefixed |-> FALSE ]

\* parse_worldcup_year raises FileNotFoundError for a year without cup.txt;
\* an exception of the validation leaves convert_worldcup_year as well.
convert_and_save_year(entry, year) ==
    IF entry = NoCupFile
    THEN [ raised |-> TRUE, e |-> << "No cup.txt found for ", year >> ]
    ELSE IF convert_worldcup_year(entry).validation.raised
    THEN [ raised |-> TRUE, e |-> << "TypeError" >> ]
    ELSE convert_worldcup_year(entry).validation

\* "except Exception as e": the result recorded for a year.
YearOutcome(outcome) ==
    IF outcome.raised
    THEN add_error(ValidationResult(FALSE), ConversionFailed(outcome.e))
    ELSE outcome

\* results[year] = result
SetItem(results, year, result) ==
    [ y \in DOMAIN results \cup { year } |-> IF y = year THEN result ELSE results[y] ]

NextYearIndex_AbortOnFailure(i, n, outcome) == IF outcome.raised THEN n + 1 ELSE i + 1

\* The for loop goes on to the next year whether the body's try block
\* raised or not.
NextYearIndex(i, n, outcome) == i + 1

BatchCall == convIn # Idle /\ convIn.fn = "convert_all_years"

\* Lines 516-525: results = {}, and the years left after the exclusion.
ConvertAllYearsEnter ==
    /\ BatchCall /\ convOut = Idle
    /\ convOut' = [ results |-> << >>,
                    years   |-> IF convIn.exclude_existing
                                THEN LET Kept(y) == y \notin existing_years
                                     IN  SelectSeq(convIn.years, Kept)
                                ELSE convIn.years,
                    i       |-> 1,
                    written |-> {},
                    returned |-> FALSE ]
    /\ UNCHANGED << convIn, predictVars, validateVars, parseVars, scoreVars, callVars >>

\* Lines 527-533: one pass of the loop.
ConvertAllYearsStep ==
    /\ BatchCall /\ convOut # Idle /\ ~convOut.returned
    /\ convOut.i <= Len(convOut.years)
    /\ LET year    == convOut.years[convOut.i]
           outcome == convert_and_save_year(convIn.disk[year], year)
       IN  convOut' = [ convOut EXCEPT
               !.results = SetItem(@, year, YearOutcome(outcome)),
               !.written = IF outcome.raised \/ convIn.dry_run THEN @ ELSE @ \cup { year },
               !.i = NextYearIndex(convOut.i, Len(convOut.years), outcome) ]
    /\ UNCHANGED << convIn, predictVars, validateVars, parseVars, scoreVars, callVars >>

\* Line 535: return results.
ConvertAllYearsReturn ==
    /\ BatchCall /\ convOut # Idle /\ ~convOut.returned
    /\ convOut.i > Len(convOut.years)
    /\ convOut' = [ convOut EXCEPT !.returned = TRUE ]
    /\ UNCHANGED << convIn, predictVars, validateVars, parseVars, scoreVars, callVars >>

InitBatch ==
    /\ IdlePredict /\ IdleValidate /\ IdleParse /\ IdleScore /\ IdleCall
    /\ convIn \in [ fn : { "convert_all_years" },
                    years : BatchYearLists,
                    exclude_existing : BOOLEAN,
                    dry_run : BOOLEAN,
                    disk : [ BatchYears -> { NoCupFile } \cup BatchTournaments ] ]
    /\ convOut = Idle
NextBatch == ConvertAllYearsEnter \/ ConvertAllYearsStep \/ ConvertAllYearsReturn
SpecBatch == InitBatch /\ [][NextBatch]_vars

BatchReturned == BatchCall /\ convOut # Idle /\ convOut.returned

\* The years the call is asked to convert: those of the "years" argument,
\* less 2014 and 2018 when exclude_existing asks to skip them.
AskedYears ==
    { convIn.years[i] : i \in DOMAIN convIn.years }
        \ (IF convIn.exclude_existing THEN existing_years ELSE {})

MaxNameLen == 4

NameChars == { "o", "f", "B", "ß", "1", " " }
Names == UNION { [ 1..n -> NameChars ] : n \in 0..MaxNameLen }

\* str.lower and str.upper, character by character.
LowerChar(c) == IF c = "B" THEN "b" ELSE c
UpperChar(c) == CASE c = "o" -> << "O" >>
                  [] c = "f" -> << "F" >>
                  [] c = "b" -> << "B" >>
                  [] c = "ß" -> << "S", "S" >>
                  [] OTHER   -> << c >>
RECURSIVE Upper(_)
Upper(s) == IF s = << >> THEN << >> ELSE UpperChar(Head(s)) \o Upper(Tail(s))

\* \w of the pattern and str.isalpha.
IsWordChar(c) == c # " "
IsAlpha(c) == c \in { "o", "f", "b", "B", "ß" }

\* The words of r'\b(the|of|and|republic)\b'.
StopWords == { << "t", "h", "e" >>, << "o", "f" >>, << "a", "n", "d" >>,
               << "r", "e", "p", "u", "b", "l", "i", "c" >> }

\* A match starts and ends at a word boundary and holds word characters only:
\* it is a whole maximal run of word characters.
RunStart(s, i) ==
    CHOOSE a \in 1..i : /\ \A k \in a..i : IsWordChar(s[k])
                        /\ a = 1 \/ ~IsWordChar(s[a - 1])
RunEnd(s, i) ==
    CHOOSE b \in i..Len(s) : /\ \A k \in i..b : IsWordChar(s[k])
                             /\ b = Len(s) \/ ~IsWordChar(s[b + 1])
InStopWord(s, i) ==
    IsWordChar(s[i]) /\ SubSeq(s, RunStart(s, i), RunEnd(s, i)) \in StopWords

\* The characters of s at the positions of kept, in order.
RECURSIVE KeepFrom(_, _, _)
KeepFrom(s, i, kept) ==
    IF i > Len(s) THEN << >>
    ELSE (IF i \in kept THEN << s[i] >> ELSE << >>) \o KeepFrom(s, i + 1, kept)

\* cleaned: re.sub on name.lower(), then the alphabetic characters.
Cleaned(name) ==
    LET lowered == [ i \in DOMAIN name |-> LowerChar(name[i]) ]
    IN  KeepFrom(lowered, 1, { i \in DOMAIN lowered :
                                 ~InStopWord(lowered, i) /\ IsAlpha(lowered[i]) })

generate_team_code(name) ==
    LET cleaned == Cleaned(name)
    IN  IF Len(cleaned) >= 3
        THEN Upper(SubSeq(cleaned, 1, 3))
        ELSE Upper(SubSeq(cleaned \o << "X", "X" >>, 1, Min2(3, Len(cleaned) + 2)))

GenerateTeamCode ==
    /\ call # Idle /\ call.fn = "generate_team_code" /\ returned = Idle
    /\ returned' = [ code |-> generate_team_code(call.name) ]
    /\ UNCHANGED << call, predictVars, validateVars, parseVars, scoreVars, convertVars >>

InitCode ==
    /\ IdlePredict /\ IdleValidate /\ IdleParse /\ IdleScore /\ IdleConvert
    /\ call \in { [ fn |-> "generate_team_code", name |-> n ] : n \in Names }
    /\ returned = Idle
NextCode == GenerateTeamCode
SpecCode == InitCode /\ [][NextCode]_vars

UpperCaseChars == { "O", "F", "B", "S", "X" }

(***************************************************************************)
(* C26 (stated as claimed; refuted by the code).                           *)
(* generate_team_code returns exactly 3 uppercase characters for every     *)
(* input name: the first 3 letters left after removing stop-words and      *)
(* non-letters, padded with "X" when fewer than 3 letters are left,        *)
(* including when none is left.                                            *)
(***************************************************************************)
C26_CodeIsThreeUppercaseCharacters ==
    (call # Idle /\ call.fn = "generate_team_code" /\ returned # Idle) =>
        LET letters == Cleaned(call.name)
            k == Min2(3, Len(letters))
        IN  /\ Len(returned.code) = 3
            /\ \A i \in DOMAIN returned.code : returned.code[i] \in UpperCaseChars
            /\ (\A i \in 1..k : letters[i] # "ß") =>
                  /\ \A i \in 1..k : << returned.code[i] >> = UpperChar(letters[i])
                  /\ \A i \in (k + 1)..3 : returned.code[i] = "X"

\* The places << round, position >> of the output that hold the match with
\* the given id.
PlacesOf(rounds, id) ==
    UNION { { << i, j >> : j \in { k \in DOMAIN rounds[i].matches :
                                      rounds[i].matches[k].of = id } } :
            i \in DOMAIN rounds }

ValidatorReturned == vres # Idle /\ ~vres.out.raised

\* Results to merge with: the returned result itself, that result after an
\* add_error or an add_warning, and a fresh ValidationResult(is_valid=True).
MergePartners(r) ==
    { r, add_error(r, TopMsg("another error")), add_warning(r, TopMsg("another warning")),
      ValidationResult(TRUE) }

AddError ==
    /\ ValidatorReturned /\ returned = Idle
    /\ returned' = [ method |-> "add_error",
                     result |-> add_error(vres.out, TopMsg("another error")) ]
    /\ UNCHANGED << call, predictVars, validateVars, parseVars, scoreVars, convertVars >>

AddWarning ==
    /\ ValidatorReturned /\ returned = Idle
    /\ returned' = [ method |-> "add_warning",
                     result |-> add_warning(vres.out, TopMsg("another warning")) ]
    /\ UNCHANGED << call, predictVars, validateVars, parseVars, scoreVars, convertVars >>

MergeResults ==
    /\ ValidatorReturned /\ returned = Idle
    /\ \E other \in MergePartners(vres.out), into_other \in BOOLEAN :
         returned' = [ method |-> "merge",
                       result |-> IF into_other THEN merge(other, vres.out)
                                  ELSE merge(vres.out, other) ]
    /\ UNCHANGED << call, predictVars, validateVars, parseVars, scoreVars, convertVars >>

InitResult == InitValidate
NextResult ==
    \/ ValidateMatch \/ ValidateWorldcupJson \/ ValidateGroupsJson
    \/ AddError \/ AddWarning \/ MergeResults
SpecResult == InitResult /\ [][NextResult]_vars

ValidIffNoError(r) == r.is_valid <=> (r.errors = << >>)

(***************************************************************************)
(* C28.  For every ValidationResult returned by validate_match,            *)
(* validate_worldcup_json or validate_groups_json, is_valid is true if and *)
(* only if errors is empty; add_error, add_warning and merge of such       *)
(* results keep this equivalence.                                          *)
(***************************************************************************)
C28_ValidIffNoErrors ==
    /\ ValidatorReturned => ValidIffNoError(vres.out)
    /\ returned # Idle => ValidIffNoError(returned.result)

\* An invalid result with its errors has been merged into a valid one.
C28_Witness ==
    /\ ValidatorReturned
    /\ vres.out.is_valid /\ vres.out.warnings # << >>
    /\ returned # Idle /\ returned.method = "merge"
    /\ ~returned.result.is_valid
    /\ Len(returned.result.errors) = 1

(***************************************************************************)
(* C29 (stated as claimed; refuted by the code).                           *)
(* Once startup has populated the match store, the statistics and          *)
(* prediction endpoints never again answer "data not loaded", whatever was *)
(* loaded, including when the loaded match list is empty because no year   *)
(* has a worldcup.json.                                                    *)
(***************************************************************************)
C29_LoadedStoreNeverAnswersNotLoaded ==
    (response # Idle /\ response.was_serving) => response.answer # DataNotLoaded

\* The sub-scores of team a in out are those of team b in other, and the
\* other way round.
SubScoresSwapped(out, other) ==
    /\ out.details.h2h_score_a = other.details.h2h_score_b
    /\ out.details.h2h_score_b = other.details.h2h_score_a
    /\ out.details.momentum_score_a = other.details.momentum_score_b
    /\ out.details.momentum_score_b = other.details.momentum_score_a
    /\ out.details.goal_power_a = other.details.goal_power_b
    /\ out.details.goal_power_b = other.details.goal_power_a
    /\ out.details.streak_score_a = other.details.streak_score_b
    /\ out.details.streak_score_b = other.details.streak_score_a

(***************************************************************************)
(* C30 (stated as claimed; refuted by the code).                           *)
(* predict_match is symmetric in its two teams: for any match list and     *)
(* codes a, b, predict(a, b).probability_a equals predict(b, a)            *)
(* .probability_b and every sub-score of a in one call equals the          *)
(* sub-score of a in the other; with a = b both probabilities are 50.0.    *)
(* (Probabilities are in tenths: 50.0 is 500.)                             *)
(***************************************************************************)
C30_PredictionSymmetric ==
    pred # Idle =>
        LET swapped == predict_match(pred.b, pred.a, matches)
        IN  /\ ~pred.out.raised
            /\ ~swapped.raised
            /\ pred.out.probability_a = swapped.probability_b
            /\ pred.out.probability_b = swapped.probability_a
            /\ SubScoresSwapped(pred.out, swapped)
            /\ pred.a = pred.b =>
                  (pred.out.probability_a = 500 /\ pred.out.probability_b = 500)

=============================================================================
